---- MODULE Spec2Model ----
(***************************************************************************)
(* ConstantPropagationPass of the shader recompiler                        *)
(* (src/shader_recompiler/ir_opt/constant_propagation_pass.cpp).           *)
(*                                                                         *)
(* The program is an arena of instructions (insts) and a list of blocks    *)
(* (blocks, in post order), each block a list of instruction ids.  The     *)
(* pass walks the blocks in reverse post order and the instructions of a   *)
(* block in program order, and applies ConstantPropagation to each.        *)
(*                                                                         *)
(* Fixed-width integers are little-endian sequences of 8-bit limbs         *)
(* (4 limbs = 32 bits, 8 limbs = 64 bits), so that wrap-around is computed *)
(* exactly.                                                                *)
(***************************************************************************)
EXTENDS Integers, Sequences, FiniteSets, TLC

VARIABLES
    insts,   \* the instruction arena: id -> [op, args, pseudo, nc]
    blocks,  \* program.post_order_blocks: each block the list of its instruction ids
    bi,      \* the block the outer loop is at
    cur,     \* the instruction the inner loop is at, 0 at the end of the block
    pc,      \* "run", "done" (the pass returned) or "error" (LogicError thrown)
    run,     \* how many times the pass has been started
    log,     \* every ReplaceUsesWith call so far: [inst, val]
    orig,    \* the program the first run was given
    before   \* what the last step visited: the instruction and the program before it

vars == <<insts, blocks, bi, cur, pc, run, log, orig, before>>

\* Number of times the pass is run in sequence on the same program.
MaxRuns == 2

(***************************************************************************)
(* Fixed-width arithmetic on limb sequences.                               *)
(***************************************************************************)
Limbs(n, w) ==
    [k \in 1..w |-> IF k = 1 THEN n % 256
                    ELSE IF k = 2 THEN (n \div 256) % 256
                    ELSE IF k = 3 THEN (n \div 65536) % 256
                    ELSE IF k = 4 THEN (n \div 16777216) % 256
                    ELSE 0]

AllOnes(w) == [k \in 1..w |-> 255]

HighBit(w) == [k \in 1..w |-> IF k = w THEN 128 ELSE 0]

IsZero(a) == \A k \in 1..Len(a) : a[k] = 0

\* carry into limb k of a + b + c0
RECURSIVE CarryIn(_, _, _, _)
CarryIn(a, b, c0, k) ==
    IF k = 1 THEN c0
    ELSE (a[k - 1] + b[k - 1] + CarryIn(a, b, c0, k - 1)) \div 256

AddC(a, b, c0) == [k \in 1..Len(a) |-> (a[k] + b[k] + CarryIn(a, b, c0, k)) % 256]

\* a + b modulo 2^(8 * Len(a))
AddW(a, b) == AddC(a, b, 0)

Complement(a) == [k \in 1..Len(a) |-> 255 - a[k]]

\* a - b modulo 2^(8 * Len(a))
SubW(a, b) == AddC(a, Complement(b), 1)

\* unsigned a < b
RECURSIVE LessFrom(_, _, _)
LessFrom(a, b, k) ==
    IF k = 0 THEN FALSE
    ELSE IF a[k] # b[k] THEN a[k] < b[k]
    ELSE LessFrom(a, b, k - 1)

ULess(a, b) == LessFrom(a, b, Len(a))

FlipSign(a) == [k \in 1..Len(a) |-> IF k = Len(a) THEN (a[k] + 128) % 256 ELSE a[k]]

\* two's complement a < b
SLess(a, b) == ULess(FlipSign(a), FlipSign(b))

(***************************************************************************)
(* IR::Value.  ty is the value's type tag; an immediate carries its        *)
(* payload in v, an opaque value refers to its producer by id.             *)
(***************************************************************************)
Imm(ty, v) == [ty |-> ty, v |-> v, id |-> 0]

Ref(i) == [ty |-> "Opaque", v |-> <<>>, id |-> i]

ImmU1(b) == Imm("U1", IF b THEN <<1>> ELSE <<0>>)

ImmU32(n) == Imm("U32", Limbs(n, 4))

ImmU64(n) == Imm("U64", Limbs(n, 8))

IsIdentity(I, val) == val.ty = "Opaque" /\ I[val.id].op = "Identity"

RECURSIVE Resolve(_, _)
Resolve(I, val) == IF IsIdentity(I, val) THEN Resolve(I, I[val.id].args[1]) ELSE val

IsImmediate(I, val) == Resolve(I, val).ty # "Opaque"

\* the producer, looking through Identity instructions; only for non-immediates
InstRecursive(I, val) == Resolve(I, val).id

\* Value::U1 / U32 / U64: the payload, looking through Identity instructions
Payload(I, val) == Resolve(I, val).v

U1(I, val) == Payload(I, val) = <<1>>

\* Value::operator==: same tag and same payload; opaque values by producer
ValueEq(a, b) == a = b

AreAllArgsImmediates(I, i) == \A k \in 1..Len(I[i].args) : IsImmediate(I, I[i].args[k])

HasAssociatedPseudoOperation(I, i) == I[i].pseudo

(***************************************************************************)
(* The state the folding rules work on: the instruction arena, the blocks, *)
(* the record of every ReplaceUsesWith call, and whether LogicError was    *)
(* thrown.                                                                 *)
(***************************************************************************)
Inst(op, args, pseudo) == [op |-> op, args |-> args, pseudo |-> pseudo, nc |-> FALSE]

\* Inst::ReplaceUsesWith: the instruction becomes an Identity of the
\* replacement, through which every use now resolves; the call is recorded.
ReplaceUsesWith(m, i, val) ==
    [m EXCEPT !.insts[i].op = "Identity",
              !.insts[i].args = <<val>>,
              !.log = Append(@, [inst |-> i, val |-> val])]

\* Inst::SetArg, with the 0-based index of the source
SetArg(m, i, index, val) == [m EXCEPT !.insts[i].args[index + 1] = val]

ReplaceOpcode(m, i, op) == [m EXCEPT !.insts[i].op = op]

\* Inst::Arg, with the 0-based index of the source
Arg(I, i, index) == I[i].args[index + 1]

InsertBefore(s, x, new) ==
    LET pos == CHOOSE k \in 1..Len(s) : s[k] = x
    IN  SubSeq(s, 1, pos - 1) \o <<new>> \o SubSeq(s, pos, Len(s))

\* IREmitter positioned at inst in block b: a new instruction is created and
\* inserted right before inst.  Returns the state; the new id is Len(insts).
Emit(m, b, i, op, args) ==
    [m EXCEPT !.insts = Append(@, Inst(op, args, FALSE)),
              !.blocks[b] = InsertBefore(@, i, Len(m.insts) + 1)]

(***************************************************************************)
(* The generic folders.                                                    *)
(***************************************************************************)
\* The lambdas given to FoldCommutative, by name
AndFn(a, b) == IF a = <<1>> /\ b = <<1>> THEN <<1>> ELSE <<0>>

OrFn(a, b) == IF a = <<1>> \/ b = <<1>> THEN <<1>> ELSE <<0>>

ImmFn(imm_fn, a, b) ==
    CASE imm_fn = "a + b" -> AddW(a, b)
      [] imm_fn = "a - b" -> SubW(a, b)
      [] imm_fn = "a && b" -> AndFn(a, b)
      [] imm_fn = "a || b" -> OrFn(a, b)

\* Mutant of FoldCommutative: merging, the constant of the producer is
\* taken alone.
FoldCommutative_DropsConstant(m, i, imm_fn, ty) ==
    LET I == m.insts
        lhs == Arg(I, i, 0)
        rhs == Arg(I, i, 1)
        is_lhs_immediate == IsImmediate(I, lhs)
        is_rhs_immediate == IsImmediate(I, rhs)
    IN  IF is_lhs_immediate /\ is_rhs_immediate
        THEN [m |-> ReplaceUsesWith(m, i, Imm(ty, ImmFn(imm_fn, Payload(I, lhs), Payload(I, rhs)))),
              ret |-> FALSE]
        ELSE IF is_lhs_immediate /\ ~is_rhs_immediate
        THEN LET rhs_inst == InstRecursive(I, rhs)
             IN  IF I[rhs_inst].op = I[i].op /\ IsImmediate(I, Arg(I, rhs_inst, 1))
                 THEN LET combined == Payload(I, Arg(I, rhs_inst, 1))
                      IN  [m |-> SetArg(SetArg(m, i, 0, Arg(I, rhs_inst, 0)), i, 1, Imm(ty, combined)),
                           ret |-> TRUE]
                 ELSE \* Normalize
                      [m |-> SetArg(SetArg(m, i, 0, rhs), i, 1, lhs), ret |-> TRUE]
        ELSE IF ~is_lhs_immediate /\ is_rhs_immediate
        THEN LET lhs_inst == InstRecursive(I, lhs)
             IN  IF I[lhs_inst].op = I[i].op /\ IsImmediate(I, Arg(I, lhs_inst, 1))
                 THEN LET combined == Payload(I, Arg(I, lhs_inst, 1))
                      IN  [m |-> SetArg(SetArg(m, i, 0, Arg(I, lhs_inst, 0)), i, 1, Imm(ty, combined)),
                           ret |-> TRUE]
                 ELSE [m |-> m, ret |-> TRUE]
        ELSE [m |-> m, ret |-> TRUE]

\* Mutant of FoldCommutative: an immediate first operand is left where it is.
FoldCommutative_NoNormalize(m, i, imm_fn, ty) ==
    LET I == m.insts
        lhs == Arg(I, i, 0)
        rhs == Arg(I, i, 1)
        is_lhs_immediate == IsImmediate(I, lhs)
        is_rhs_immediate == IsImmediate(I, rhs)
    IN  IF is_lhs_immediate /\ is_rhs_immediate
        THEN [m |-> ReplaceUsesWith(m, i, Imm(ty, ImmFn(imm_fn, Payload(I, lhs), Payload(I, rhs)))),
              ret |-> FALSE]
        ELSE IF is_lhs_immediate /\ ~is_rhs_immediate
        THEN LET rhs_inst == InstRecursive(I, rhs)
             IN  IF I[rhs_inst].op = I[i].op /\ IsImmediate(I, Arg(I, rhs_inst, 1))
                 THEN LET combined == ImmFn(imm_fn, Payload(I, lhs), Payload(I, Arg(I, rhs_inst, 1)))
                      IN  [m |-> SetArg(SetArg(m, i, 0, Arg(I, rhs_inst, 0)), i, 1, Imm(ty, combined)),
                           ret |-> TRUE]
                 ELSE [m |-> m, ret |-> TRUE]
        ELSE IF ~is_lhs_immediate /\ is_rhs_immediate
        THEN LET lhs_inst == InstRecursive(I, lhs)
             IN  IF I[lhs_inst].op = I[i].op /\ IsImmediate(I, Arg(I, lhs_inst, 1))
                 THEN LET combined == ImmFn(imm_fn, Payload(I, rhs), Payload(I, Arg(I, lhs_inst, 1)))
                      IN  [m |-> SetArg(SetArg(m, i, 0, Arg(I, lhs_inst, 0)), i, 1, Imm(ty, combined)),
                           ret |-> TRUE]
                 ELSE [m |-> m, ret |-> TRUE]
        ELSE [m |-> m, ret |-> TRUE]

FoldCommutative(m, i, imm_fn, ty) ==
    LET I == m.insts
        lhs == Arg(I, i, 0)
        rhs == Arg(I, i, 1)
        is_lhs_immediate == IsImmediate(I, lhs)
        is_rhs_immediate == IsImmediate(I, rhs)
    IN  IF is_lhs_immediate /\ is_rhs_immediate
        THEN [m |-> ReplaceUsesWith(m, i, Imm(ty, ImmFn(imm_fn, Payload(I, lhs), Payload(I, rhs)))),
              ret |-> FALSE]
        ELSE IF is_lhs_immediate /\ ~is_rhs_immediate
        THEN LET rhs_inst == InstRecursive(I, rhs)
             IN  IF I[rhs_inst].op = I[i].op /\ IsImmediate(I, Arg(I, rhs_inst, 1))
                 THEN LET combined == ImmFn(imm_fn, Payload(I, lhs), Payload(I, Arg(I, rhs_inst, 1)))
                      IN  [m |-> SetArg(SetArg(m, i, 0, Arg(I, rhs_inst, 0)), i, 1, Imm(ty, combined)),
                           ret |-> TRUE]
                 ELSE \* Normalize
                      [m |-> SetArg(SetArg(m, i, 0, rhs), i, 1, lhs), ret |-> TRUE]
        ELSE IF ~is_lhs_immediate /\ is_rhs_immediate
        THEN LET lhs_inst == InstRecursive(I, lhs)
             IN  IF I[lhs_inst].op = I[i].op /\ IsImmediate(I, Arg(I, lhs_inst, 1))
                 THEN LET combined == ImmFn(imm_fn, Payload(I, rhs), Payload(I, Arg(I, lhs_inst, 1)))
                      IN  [m |-> SetArg(SetArg(m, i, 0, Arg(I, lhs_inst, 0)), i, 1, Imm(ty, combined)),
                           ret |-> TRUE]
                 ELSE [m |-> m, ret |-> TRUE]
        ELSE [m |-> m, ret |-> TRUE]

(***************************************************************************)
(* The lambdas given to FoldWhenAllImmediates.  a is the sequence of the   *)
(* decoded arguments; a lambda yields [throw, v]: LogicError, or the        *)
(* payload of its result.                                                  *)
(***************************************************************************)
Ok(v) == [throw |-> FALSE, v |-> v]

Bool(b) == IF b THEN <<1>> ELSE <<0>>

\* the number an index immediate denotes (indices are far below 2^16)
IndexOf(p) == p[1] + 256 * p[2]

BitAt(a, k) == (a[(k \div 8) + 1] \div (2 ^ (k % 8))) % 2

FromBits(f) ==
    [j \in 1..4 |-> LET o == 8 * (j - 1)
                    IN  f[o] + 2 * f[o + 1] + 4 * f[o + 2] + 8 * f[o + 3] + 16 * f[o + 4]
                        + 32 * f[o + 5] + 64 * f[o + 6] + 128 * f[o + 7]]

Shl(a, n) == FromBits([k \in 0..31 |-> IF k >= n THEN BitAt(a, k - n) ELSE 0])

ShrU(a, n) == FromBits([k \in 0..31 |-> IF k + n <= 31 THEN BitAt(a, k + n) ELSE 0])

Sar(a, n) == FromBits([k \in 0..31 |-> IF k + n <= 31 THEN BitAt(a, k + n) ELSE BitAt(a, 31)])

AndW(a, b) == FromBits([k \in 0..31 |-> BitAt(a, k) * BitAt(b, k)])

\* What a shift by the full width (undefined in C++) can produce: the count
\* taken modulo 32 ("wrap"), or every bit shifted out ("out").
ShiftOutcomes == {"wrap", "out"}

Shl32(a, n, ub) == IF n < 32 THEN Shl(a, n) ELSE IF ub = "wrap" THEN Shl(a, n % 32) ELSE Limbs(0, 4)

ShrU32(a, n, ub) == IF n < 32 THEN ShrU(a, n) ELSE IF ub = "wrap" THEN ShrU(a, n % 32) ELSE Limbs(0, 4)

Sar32(a, n, ub) == IF n < 32 THEN Sar(a, n) ELSE IF ub = "wrap" THEN Sar(a, n % 32) ELSE Sar(a, 31)

\* a u32 widened to size_t, as a number; anything from 2^16 up stands as 2^16
SizeT(p) == IF p[3] = 0 /\ p[4] = 0 THEN p[1] + 256 * p[2] ELSE 65536

Throw == [throw |-> TRUE, v |-> <<>>]

\* Mutant of BitFieldUExtractFn: shift + count is a 32-bit sum, which wraps.
BitFieldUExtractFn_WrappingSum(a, ub) ==
    LET base == a[1]
        shift == SizeT(a[2])
        count == SizeT(a[3])
    IN  IF SizeT(AddW(a[2], a[3])) > 32 THEN Throw
        ELSE Ok(AndW(ShrU32(base, shift, ub), SubW(Shl32(Limbs(1, 4), count, ub), Limbs(1, 4))))

BitFieldUExtractFn(a, ub) ==
    LET base == a[1]
        shift == SizeT(a[2])
        count == SizeT(a[3])
    IN  IF shift + count > 32 THEN Throw
        ELSE Ok(AndW(ShrU32(base, shift, ub), SubW(Shl32(Limbs(1, 4), count, ub), Limbs(1, 4))))

BitFieldSExtractFn(a, ub) ==
    LET base == a[1]
        shift == SizeT(a[2])
        count == SizeT(a[3])
        back_shift == shift + count
    IN  IF back_shift > 32 THEN Throw
        ELSE LET left_shift == 32 - back_shift
             IN  Ok(Sar32(Shl32(base, left_shift, ub), 32 - count, ub))

SLessThanFn(a) == Ok(Bool(SLess(a[1], a[2])))

ULessThanFn(a) == Ok(Bool(ULess(a[1], a[2])))

SLessThanEqualFn(a) == Ok(Bool(~SLess(a[2], a[1])))

ULessThanEqualFn(a) == Ok(Bool(~ULess(a[2], a[1])))

SGreaterThanFn(a) == Ok(Bool(SLess(a[2], a[1])))

UGreaterThanFn(a) == Ok(Bool(ULess(a[2], a[1])))

SGreaterThanEqualFn(a) == Ok(Bool(~SLess(a[1], a[2])))

UGreaterThanEqualFn(a) == Ok(Bool(~ULess(a[1], a[2])))

IEqualFn(a) == Ok(Bool(a[1] = a[2]))

INotEqualFn(a) == Ok(Bool(a[1] # a[2]))

SubFn(a) == Ok(SubW(a[1], a[2]))

\* func names the lambda by its opcode; ub is the outcome of a shift by the
\* full width, should the lambda make one
Lambda(name, ub) == [name |-> name, ub |-> ub]

Call(func, a) ==
    CASE func.name = "ISub32" -> SubFn(a)
      [] func.name = "SLessThan" -> SLessThanFn(a)
      [] func.name = "ULessThan" -> ULessThanFn(a)
      [] func.name = "SLessThanEqual" -> SLessThanEqualFn(a)
      [] func.name = "ULessThanEqual" -> ULessThanEqualFn(a)
      [] func.name = "SGreaterThan" -> SGreaterThanFn(a)
      [] func.name = "UGreaterThan" -> UGreaterThanFn(a)
      [] func.name = "SGreaterThanEqual" -> SGreaterThanEqualFn(a)
      [] func.name = "UGreaterThanEqual" -> UGreaterThanEqualFn(a)
      [] func.name = "IEqual" -> IEqualFn(a)
      [] func.name = "INotEqual" -> INotEqualFn(a)
      [] func.name = "BitFieldUExtract" -> BitFieldUExtractFn(a, func.ub)
      [] func.name = "BitFieldSExtract" -> BitFieldSExtractFn(a, func.ub)

\* The decoded arguments handed to the folding lambda
EvalArgs(I, i) == [k \in 1..Len(I[i].args) |-> Payload(I, I[i].args[k])]

EvalImmediates(I, i, func, ty) == Imm(ty, Call(func, EvalArgs(I, i)).v)

\* Mutant of FoldWhenAllImmediates: the instruction whose function throws is
\* replaced by zero before the error leaves.
FoldWhenAllImmediates_ReplacesThenThrows(m, i, func, ty) ==
    IF ~AreAllArgsImmediates(m.insts, i) \/ HasAssociatedPseudoOperation(m.insts, i)
    THEN [m |-> m, ret |-> FALSE]
    ELSE IF Call(func, EvalArgs(m.insts, i)).throw
    THEN [m |-> [ReplaceUsesWith(m, i, Imm(ty, Limbs(0, 4))) EXCEPT !.err = TRUE], ret |-> FALSE]
    ELSE [m |-> ReplaceUsesWith(m, i, EvalImmediates(m.insts, i, func, ty)), ret |-> TRUE]

FoldWhenAllImmediates(m, i, func, ty) ==
    IF ~AreAllArgsImmediates(m.insts, i) \/ HasAssociatedPseudoOperation(m.insts, i)
    THEN [m |-> m, ret |-> FALSE]
    ELSE IF Call(func, EvalArgs(m.insts, i)).throw
    THEN [m |-> [m EXCEPT !.err = TRUE], ret |-> FALSE]
    ELSE [m |-> ReplaceUsesWith(m, i, EvalImmediates(m.insts, i, func, ty)), ret |-> TRUE]

RZ == Imm("Reg", <<255>>)

PT == Imm("Pred", <<7>>)

FoldGetRegister(m, i) ==
    IF Arg(m.insts, i, 0) = RZ THEN ReplaceUsesWith(m, i, ImmU32(0)) ELSE m

FoldGetPred(m, i) ==
    IF Arg(m.insts, i, 0) = PT THEN ReplaceUsesWith(m, i, ImmU1(TRUE)) ELSE m

(***************************************************************************)
(* The opcode-specific folders.  Those that report whether they folded     *)
(* return [m, ret].                                                        *)
(***************************************************************************)
\* Mutant of FoldXmadMultiply: the multiply is emitted and the add's result
\* is not replaced by it.
FoldXmadMultiply_NoReplace(m, b, i) ==
    LET I == m.insts
        lhs_arg == Arg(I, i, 0)
        rhs_arg == Arg(I, i, 1)
        No == [m |-> m, ret |-> FALSE]
    IN  IF IsImmediate(I, lhs_arg) \/ IsImmediate(I, rhs_arg) THEN No
        ELSE
        LET lhs_shl == InstRecursive(I, lhs_arg)
        IN  IF I[lhs_shl].op # "ShiftLeftLogical32" \/ ~ValueEq(Arg(I, lhs_shl, 1), ImmU32(16)) THEN No
            ELSE IF IsImmediate(I, Arg(I, lhs_shl, 0)) THEN No
            ELSE
            LET lhs_mul == InstRecursive(I, Arg(I, lhs_shl, 0))
                rhs_mul == InstRecursive(I, rhs_arg)
            IN  IF I[lhs_mul].op # "IMul32" \/ I[rhs_mul].op # "IMul32" THEN No
                ELSE IF ~ValueEq(Resolve(I, Arg(I, lhs_mul, 1)), Resolve(I, Arg(I, rhs_mul, 1))) THEN No
                ELSE IF IsImmediate(I, Arg(I, lhs_mul, 0)) \/ IsImmediate(I, Arg(I, rhs_mul, 0)) THEN No
                ELSE
                LET factor_b == Arg(I, lhs_mul, 1)
                    lhs_bfe == InstRecursive(I, Arg(I, lhs_mul, 0))
                    rhs_bfe == InstRecursive(I, Arg(I, rhs_mul, 0))
                IN  IF I[lhs_bfe].op # "BitFieldUExtract" THEN No
                    ELSE IF I[rhs_bfe].op # "BitFieldUExtract" THEN No
                    ELSE IF ~ValueEq(Arg(I, lhs_bfe, 1), ImmU32(16))
                            \/ ~ValueEq(Arg(I, lhs_bfe, 2), ImmU32(16)) THEN No
                    ELSE IF ~ValueEq(Arg(I, rhs_bfe, 1), ImmU32(0))
                            \/ ~ValueEq(Arg(I, rhs_bfe, 2), ImmU32(16)) THEN No
                    ELSE IF ~ValueEq(Resolve(I, Arg(I, lhs_bfe, 0)), Resolve(I, Arg(I, rhs_bfe, 0))) THEN No
                    ELSE
                    LET factor_a == Arg(I, lhs_bfe, 0)
                        emitted == Emit(m, b, i, "IMul32", <<factor_a, factor_b>>)
                    IN  [m |-> emitted, ret |-> TRUE]

\* Mutant of FoldXmadMultiply: the amount of the shift is not looked at.
FoldXmadMultiply_AnyShift(m, b, i) ==
    LET I == m.insts
        lhs_arg == Arg(I, i, 0)
        rhs_arg == Arg(I, i, 1)
        No == [m |-> m, ret |-> FALSE]
    IN  IF IsImmediate(I, lhs_arg) \/ IsImmediate(I, rhs_arg) THEN No
        ELSE
        LET lhs_shl == InstRecursive(I, lhs_arg)
        IN  IF I[lhs_shl].op # "ShiftLeftLogical32" THEN No
            ELSE IF IsImmediate(I, Arg(I, lhs_shl, 0)) THEN No
            ELSE
            LET lhs_mul == InstRecursive(I, Arg(I, lhs_shl, 0))
                rhs_mul == InstRecursive(I, rhs_arg)
            IN  IF I[lhs_mul].op # "IMul32" \/ I[rhs_mul].op # "IMul32" THEN No
                ELSE IF ~ValueEq(Resolve(I, Arg(I, lhs_mul, 1)), Resolve(I, Arg(I, rhs_mul, 1))) THEN No
                ELSE IF IsImmediate(I, Arg(I, lhs_mul, 0)) \/ IsImmediate(I, Arg(I, rhs_mul, 0)) THEN No
                ELSE
                LET factor_b == Arg(I, lhs_mul, 1)
                    lhs_bfe == InstRecursive(I, Arg(I, lhs_mul, 0))
                    rhs_bfe == InstRecursive(I, Arg(I, rhs_mul, 0))
                IN  IF I[lhs_bfe].op # "BitFieldUExtract" THEN No
                    ELSE IF I[rhs_bfe].op # "BitFieldUExtract" THEN No
                    ELSE IF ~ValueEq(Arg(I, lhs_bfe, 1), ImmU32(16))
                            \/ ~ValueEq(Arg(I, lhs_bfe, 2), ImmU32(16)) THEN No
                    ELSE IF ~ValueEq(Arg(I, rhs_bfe, 1), ImmU32(0))
                            \/ ~ValueEq(Arg(I, rhs_bfe, 2), ImmU32(16)) THEN No
                    ELSE IF ~ValueEq(Resolve(I, Arg(I, lhs_bfe, 0)), Resolve(I, Arg(I, rhs_bfe, 0))) THEN No
                    ELSE
                    LET factor_a == Arg(I, lhs_bfe, 0)
                        emitted == Emit(m, b, i, "IMul32", <<factor_a, factor_b>>)
                    IN  [m |-> ReplaceUsesWith(emitted, i, Ref(Len(emitted.insts))), ret |-> TRUE]

\* Replaces the pattern generated by two XMAD multiplications
\* Mutant of FoldXmadMultiply: the two extracts need not read the same value.
FoldXmadMultiply_AnyFactor(m, b, i) ==
    LET I == m.insts
        lhs_arg == Arg(I, i, 0)
        rhs_arg == Arg(I, i, 1)
        No == [m |-> m, ret |-> FALSE]
    IN  IF IsImmediate(I, lhs_arg) \/ IsImmediate(I, rhs_arg) THEN No
        ELSE
        LET lhs_shl == InstRecursive(I, lhs_arg)
        IN  IF I[lhs_shl].op # "ShiftLeftLogical32" \/ ~ValueEq(Arg(I, lhs_shl, 1), ImmU32(16)) THEN No
            ELSE IF IsImmediate(I, Arg(I, lhs_shl, 0)) THEN No
            ELSE
            LET lhs_mul == InstRecursive(I, Arg(I, lhs_shl, 0))
                rhs_mul == InstRecursive(I, rhs_arg)
            IN  IF I[lhs_mul].op # "IMul32" \/ I[rhs_mul].op # "IMul32" THEN No
                ELSE IF ~ValueEq(Resolve(I, Arg(I, lhs_mul, 1)), Resolve(I, Arg(I, rhs_mul, 1))) THEN No
                ELSE IF IsImmediate(I, Arg(I, lhs_mul, 0)) \/ IsImmediate(I, Arg(I, rhs_mul, 0)) THEN No
                ELSE
                LET factor_b == Arg(I, lhs_mul, 1)
                    lhs_bfe == InstRecursive(I, Arg(I, lhs_mul, 0))
                    rhs_bfe == InstRecursive(I, Arg(I, rhs_mul, 0))
                IN  IF I[lhs_bfe].op # "BitFieldUExtract" THEN No
                    ELSE IF I[rhs_bfe].op # "BitFieldUExtract" THEN No
                    ELSE IF ~ValueEq(Arg(I, lhs_bfe, 1), ImmU32(16))
                            \/ ~ValueEq(Arg(I, lhs_bfe, 2), ImmU32(16)) THEN No
                    ELSE IF ~ValueEq(Arg(I, rhs_bfe, 1), ImmU32(0))
                            \/ ~ValueEq(Arg(I, rhs_bfe, 2), ImmU32(16)) THEN No
                    ELSE
                    LET factor_a == Arg(I, lhs_bfe, 0)
                        emitted == Emit(m, b, i, "IMul32", <<factor_a, factor_b>>)
                    IN  [m |-> ReplaceUsesWith(emitted, i, Ref(Len(emitted.insts))), ret |-> TRUE]

FoldXmadMultiply(m, b, i) ==
    LET I == m.insts
        lhs_arg == Arg(I, i, 0)
        rhs_arg == Arg(I, i, 1)
        No == [m |-> m, ret |-> FALSE]
    IN  IF IsImmediate(I, lhs_arg) \/ IsImmediate(I, rhs_arg) THEN No
        ELSE
        LET lhs_shl == InstRecursive(I, lhs_arg)
        IN  IF I[lhs_shl].op # "ShiftLeftLogical32" \/ ~ValueEq(Arg(I, lhs_shl, 1), ImmU32(16)) THEN No
            ELSE IF IsImmediate(I, Arg(I, lhs_shl, 0)) THEN No
            ELSE
            LET lhs_mul == InstRecursive(I, Arg(I, lhs_shl, 0))
                rhs_mul == InstRecursive(I, rhs_arg)
            IN  IF I[lhs_mul].op # "IMul32" \/ I[rhs_mul].op # "IMul32" THEN No
                ELSE IF ~ValueEq(Resolve(I, Arg(I, lhs_mul, 1)), Resolve(I, Arg(I, rhs_mul, 1))) THEN No
                ELSE IF IsImmediate(I, Arg(I, lhs_mul, 0)) \/ IsImmediate(I, Arg(I, rhs_mul, 0)) THEN No
                ELSE
                LET factor_b == Arg(I, lhs_mul, 1)
                    lhs_bfe == InstRecursive(I, Arg(I, lhs_mul, 0))
                    rhs_bfe == InstRecursive(I, Arg(I, rhs_mul, 0))
                IN  IF I[lhs_bfe].op # "BitFieldUExtract" THEN No
                    ELSE IF I[rhs_bfe].op # "BitFieldUExtract" THEN No
                    ELSE IF ~ValueEq(Arg(I, lhs_bfe, 1), ImmU32(16))
                            \/ ~ValueEq(Arg(I, lhs_bfe, 2), ImmU32(16)) THEN No
                    ELSE IF ~ValueEq(Arg(I, rhs_bfe, 1), ImmU32(0))
                            \/ ~ValueEq(Arg(I, rhs_bfe, 2), ImmU32(16)) THEN No
                    ELSE IF ~ValueEq(Resolve(I, Arg(I, lhs_bfe, 0)), Resolve(I, Arg(I, rhs_bfe, 0))) THEN No
                    ELSE
                    LET factor_a == Arg(I, lhs_bfe, 0)
                        emitted == Emit(m, b, i, "IMul32", <<factor_a, factor_b>>)
                    IN  [m |-> ReplaceUsesWith(emitted, i, Ref(Len(emitted.insts))), ret |-> TRUE]

\* Mutant of FoldAdd: the immediates are combined with a - b.
FoldAdd_Sub(m, b, i, ty) ==
    IF HasAssociatedPseudoOperation(m.insts, i) THEN m
    ELSE
    LET fc == FoldCommutative(m, i, "a - b", ty)
    IN  IF ~fc.ret THEN fc.m
        ELSE
        LET rhs == Arg(fc.m.insts, i, 1)
        IN  IF IsImmediate(fc.m.insts, rhs) /\ IsZero(Payload(fc.m.insts, rhs))
            THEN ReplaceUsesWith(fc.m, i, Arg(fc.m.insts, i, 0))
            ELSE IF ty = "U32" THEN FoldXmadMultiply(fc.m, b, i).m
            ELSE fc.m

\* Mutant of FoldAdd: the add of zero is not folded.
FoldAdd_NoZeroCheck(m, b, i, ty) ==
    IF HasAssociatedPseudoOperation(m.insts, i) THEN m
    ELSE
    LET fc == FoldCommutative(m, i, "a + b", ty)
    IN  IF ~fc.ret THEN fc.m
        ELSE IF ty = "U32" THEN FoldXmadMultiply(fc.m, b, i).m
        ELSE fc.m

\* FoldAdd<T>: ty is "U32" or "U64"
FoldAdd(m, b, i, ty) ==
    IF HasAssociatedPseudoOperation(m.insts, i) THEN m
    ELSE
    LET fc == FoldCommutative(m, i, "a + b", ty)
    IN  IF ~fc.ret THEN fc.m
        ELSE
        LET rhs == Arg(fc.m.insts, i, 1)
        IN  IF IsImmediate(fc.m.insts, rhs) /\ IsZero(Payload(fc.m.insts, rhs))
            THEN ReplaceUsesWith(fc.m, i, Arg(fc.m.insts, i, 0))
            ELSE IF ty = "U32" THEN FoldXmadMultiply(fc.m, b, i).m
            ELSE fc.m

\* Mutant of equal_cbuf: the offsets are not compared.
equal_cbuf_SlotOnly(I, a, b) ==
    /\ I[a].op = "GetCbufU32"
    /\ I[b].op = "GetCbufU32"
    /\ ValueEq(Arg(I, a, 0), Arg(I, b, 0))

equal_cbuf(I, a, b) ==
    /\ I[a].op = "GetCbufU32"
    /\ I[b].op = "GetCbufU32"
    /\ ValueEq(Arg(I, a, 0), Arg(I, b, 0))
    /\ ValueEq(Arg(I, a, 1), Arg(I, b, 1))

\* Mutant of FoldISub32: the add/cbuf rule replaces by the cbuf operand of
\* the add instead of the other one.
FoldISub32_CbufOperand(m, i) ==
    LET all == FoldWhenAllImmediates(m, i, Lambda("ISub32", "wrap"), "U32")
        I == m.insts
    IN  IF all.ret \/ all.m.err THEN all.m
        ELSE IF IsImmediate(I, Arg(I, i, 0)) \/ IsImmediate(I, Arg(I, i, 1)) THEN m
        ELSE
        LET op_a0 == InstRecursive(I, Arg(I, i, 0))
            op_b0 == InstRecursive(I, Arg(I, i, 1))
        IN  IF equal_cbuf(I, op_a0, op_b0) THEN ReplaceUsesWith(m, i, ImmU32(0))
            ELSE
            LET swap == I[op_b0].op = "IAdd32"
                op_a == IF swap THEN op_b0 ELSE op_a0
                op_b == IF swap THEN op_a0 ELSE op_b0
            IN  IF I[op_b].op # "GetCbufU32" THEN m
                ELSE IF I[op_a].op # "IAdd32" THEN m
                ELSE
                LET inst_cbuf == op_b
                    canon == IsImmediate(I, Arg(I, op_a, 1))
                    add_op_a == IF canon THEN Arg(I, op_a, 1) ELSE Arg(I, op_a, 0)
                    add_op_b == IF canon THEN Arg(I, op_a, 0) ELSE Arg(I, op_a, 1)
                IN  IF IsImmediate(I, add_op_b) THEN m
                    ELSE IF equal_cbuf(I, InstRecursive(I, add_op_b), inst_cbuf)
                    THEN ReplaceUsesWith(m, i, add_op_b)
                    ELSE m

FoldISub32(m, i) ==
    LET all == FoldWhenAllImmediates(m, i, Lambda("ISub32", "wrap"), "U32")
        I == m.insts
    IN  IF all.ret \/ all.m.err THEN all.m
        ELSE IF IsImmediate(I, Arg(I, i, 0)) \/ IsImmediate(I, Arg(I, i, 1)) THEN m
        ELSE
        LET op_a0 == InstRecursive(I, Arg(I, i, 0))
            op_b0 == InstRecursive(I, Arg(I, i, 1))
        IN  IF equal_cbuf(I, op_a0, op_b0) THEN ReplaceUsesWith(m, i, ImmU32(0))
            ELSE
            \* Canonicalize local variables to simplify the following logic
            LET swap == I[op_b0].op = "IAdd32"
                op_a == IF swap THEN op_b0 ELSE op_a0
                op_b == IF swap THEN op_a0 ELSE op_b0
            IN  IF I[op_b].op # "GetCbufU32" THEN m
                ELSE IF I[op_a].op # "IAdd32" THEN m
                ELSE
                LET inst_cbuf == op_b
                    canon == IsImmediate(I, Arg(I, op_a, 1))
                    add_op_a == IF canon THEN Arg(I, op_a, 1) ELSE Arg(I, op_a, 0)
                    add_op_b == IF canon THEN Arg(I, op_a, 0) ELSE Arg(I, op_a, 1)
                IN  IF IsImmediate(I, add_op_b) THEN m
                    ELSE IF equal_cbuf(I, InstRecursive(I, add_op_b), inst_cbuf)
                    THEN ReplaceUsesWith(m, i, add_op_a)
                    ELSE m

FoldSelect(m, i) ==
    LET cond == Arg(m.insts, i, 0)
    IN  IF IsImmediate(m.insts, cond)
        THEN ReplaceUsesWith(m, i, IF U1(m.insts, cond) THEN Arg(m.insts, i, 1) ELSE Arg(m.insts, i, 2))
        ELSE m

\* Mutant of FoldFPMul32: the no-contraction flag is not looked at.
FoldFPMul32_IgnoresFlag(m, i) ==
    LET I == m.insts
        lhs_value == Arg(I, i, 0)
        rhs_value == Arg(I, i, 1)
    IN  IF IsImmediate(I, lhs_value) \/ IsImmediate(I, rhs_value) THEN m
        ELSE
        LET lhs_op == InstRecursive(I, lhs_value)
            rhs_op == InstRecursive(I, rhs_value)
        IN  IF I[lhs_op].op # "FPMul32" \/ I[rhs_op].op # "FPRecip32" THEN m
            ELSE
            LET recip_source == Arg(I, rhs_op, 0)
                lhs_mul_source == Resolve(I, Arg(I, lhs_op, 1))
            IN  IF IsImmediate(I, recip_source) \/ IsImmediate(I, lhs_mul_source) THEN m
                ELSE
                LET attr_a == InstRecursive(I, recip_source)
                    attr_b == InstRecursive(I, lhs_mul_source)
                IN  IF I[attr_a].op # "GetAttribute" \/ I[attr_b].op # "GetAttribute" THEN m
                    ELSE IF Arg(I, attr_a, 0) = Arg(I, attr_b, 0)
                    THEN ReplaceUsesWith(m, i, Arg(I, lhs_op, 0))
                    ELSE m

FoldFPMul32(m, i) ==
    LET I == m.insts
        lhs_value == Arg(I, i, 0)
        rhs_value == Arg(I, i, 1)
    IN  IF I[i].nc THEN m
        ELSE IF IsImmediate(I, lhs_value) \/ IsImmediate(I, rhs_value) THEN m
        ELSE
        LET lhs_op == InstRecursive(I, lhs_value)
            rhs_op == InstRecursive(I, rhs_value)
        IN  IF I[lhs_op].op # "FPMul32" \/ I[rhs_op].op # "FPRecip32" THEN m
            ELSE
            LET recip_source == Arg(I, rhs_op, 0)
                lhs_mul_source == Resolve(I, Arg(I, lhs_op, 1))
            IN  IF IsImmediate(I, recip_source) \/ IsImmediate(I, lhs_mul_source) THEN m
                ELSE
                LET attr_a == InstRecursive(I, recip_source)
                    attr_b == InstRecursive(I, lhs_mul_source)
                IN  IF I[attr_a].op # "GetAttribute" \/ I[attr_b].op # "GetAttribute" THEN m
                    ELSE IF Arg(I, attr_a, 0) = Arg(I, attr_b, 0)
                    THEN ReplaceUsesWith(m, i, Arg(I, lhs_op, 0))
                    ELSE m

FoldLogicalAnd(m, i) ==
    LET fc == FoldCommutative(m, i, "a && b", "U1")
    IN  IF ~fc.ret THEN fc.m
        ELSE
        LET rhs == Arg(fc.m.insts, i, 1)
        IN  IF IsImmediate(fc.m.insts, rhs)
            THEN IF U1(fc.m.insts, rhs)
                 THEN ReplaceUsesWith(fc.m, i, Arg(fc.m.insts, i, 0))
                 ELSE ReplaceUsesWith(fc.m, i, ImmU1(FALSE))
            ELSE fc.m

\* Mutant of FoldLogicalOr: the two outcomes are those of FoldLogicalAnd.
FoldLogicalOr_AsAnd(m, i) ==
    LET fc == FoldCommutative(m, i, "a || b", "U1")
    IN  IF ~fc.ret THEN fc.m
        ELSE
        LET rhs == Arg(fc.m.insts, i, 1)
        IN  IF IsImmediate(fc.m.insts, rhs)
            THEN IF U1(fc.m.insts, rhs)
                 THEN ReplaceUsesWith(fc.m, i, Arg(fc.m.insts, i, 0))
                 ELSE ReplaceUsesWith(fc.m, i, ImmU1(FALSE))
            ELSE fc.m

FoldLogicalOr(m, i) ==
    LET fc == FoldCommutative(m, i, "a || b", "U1")
    IN  IF ~fc.ret THEN fc.m
        ELSE
        LET rhs == Arg(fc.m.insts, i, 1)
        IN  IF IsImmediate(fc.m.insts, rhs)
            THEN IF U1(fc.m.insts, rhs)
                 THEN ReplaceUsesWith(fc.m, i, ImmU1(TRUE))
                 ELSE ReplaceUsesWith(fc.m, i, Arg(fc.m.insts, i, 0))
            ELSE fc.m

\* Mutant of FoldLogicalNot: the immediate is not negated.
FoldLogicalNot_NoNegation(m, i) ==
    LET I == m.insts
        value == Arg(I, i, 0)
    IN  IF IsImmediate(I, value) THEN ReplaceUsesWith(m, i, ImmU1(U1(I, value)))
        ELSE
        LET arg == InstRecursive(I, value)
        IN  IF I[arg].op = "LogicalNot" THEN ReplaceUsesWith(m, i, Arg(I, arg, 0)) ELSE m

FoldLogicalNot(m, i) ==
    LET I == m.insts
        value == Arg(I, i, 0)
    IN  IF IsImmediate(I, value) THEN ReplaceUsesWith(m, i, ImmU1(~U1(I, value)))
        ELSE
        LET arg == InstRecursive(I, value)
        IN  IF I[arg].op = "LogicalNot" THEN ReplaceUsesWith(m, i, Arg(I, arg, 0)) ELSE m

\* FoldBitCast<op, Dest, Source>: the immediate keeps its bits and takes type dest
FoldBitCast(m, i, op, dest, reverse) ==
    LET I == m.insts
        value == Arg(I, i, 0)
    IN  IF IsImmediate(I, value) THEN ReplaceUsesWith(m, i, Imm(dest, Payload(I, value)))
        ELSE
        LET arg_inst == InstRecursive(I, value)
        IN  IF I[arg_inst].op = reverse THEN ReplaceUsesWith(m, i, Arg(I, arg_inst, 0))
            ELSE IF op = "BitCastF32U32" /\ I[arg_inst].op = "GetCbufU32"
            THEN \* Replace the bitcast with a typed constant buffer read
                 [m EXCEPT !.insts[i].op = "GetCbufF32",
                           !.insts[i].args = <<Arg(I, arg_inst, 0), Arg(I, arg_inst, 1)>>]
            ELSE m

\* Mutant of FoldInverseFunc: the result is replaced by the operand, not by
\* the operand of the inverse operation.
FoldInverseFunc_KeepsInverse(m, i, reverse) ==
    LET I == m.insts
        value == Arg(I, i, 0)
    IN  IF IsImmediate(I, value) THEN m
        ELSE
        LET arg_inst == InstRecursive(I, value)
        IN  IF I[arg_inst].op = reverse THEN ReplaceUsesWith(m, i, value) ELSE m

FoldInverseFunc(m, i, reverse) ==
    LET I == m.insts
        value == Arg(I, i, 0)
    IN  IF IsImmediate(I, value) THEN m
        ELSE
        LET arg_inst == InstRecursive(I, value)
        IN  IF I[arg_inst].op = reverse THEN ReplaceUsesWith(m, i, Arg(I, arg_inst, 0)) ELSE m

\* Mutant of FoldBranchConditional: the targets are exchanged and the
\* negation is left on the condition.
FoldBranchConditional_KeepsNot(m, i) ==
    LET I == m.insts
        cond == Arg(I, i, 0)
    IN  IF IsImmediate(I, cond) THEN m
        ELSE
        LET cond_inst == InstRecursive(I, cond)
        IN  IF I[cond_inst].op = "LogicalNot"
            THEN SetArg(SetArg(m, i, 1, Arg(I, i, 2)), i, 2, Arg(I, i, 1))
            ELSE m

\* Mutant of FoldBranchConditional: the negation is removed and the targets
\* are left as they were.
FoldBranchConditional_NoSwap(m, i) ==
    LET I == m.insts
        cond == Arg(I, i, 0)
    IN  IF IsImmediate(I, cond) THEN m
        ELSE
        LET cond_inst == InstRecursive(I, cond)
        IN  IF I[cond_inst].op = "LogicalNot"
            THEN SetArg(m, i, 0, Arg(I, cond_inst, 0))
            ELSE m

FoldBranchConditional(m, i) ==
    LET I == m.insts
        cond == Arg(I, i, 0)
    IN  IF IsImmediate(I, cond) THEN m
        ELSE
        LET cond_inst == InstRecursive(I, cond)
        IN  IF I[cond_inst].op = "LogicalNot"
            THEN LET true_label == Arg(I, i, 1)
                     false_label == Arg(I, i, 2)
                 IN  SetArg(SetArg(SetArg(m, i, 0, Arg(I, cond_inst, 0)), i, 1, false_label), i, 2, true_label)
            ELSE m

None == [some |-> FALSE, val |-> Ref(0)]

Some(val) == [some |-> TRUE, val |-> val]

RECURSIVE FoldCompositeExtractImpl(_, _, _, _, _)
FoldCompositeExtractImpl(I, inst_value, insert, construct, first_index) ==
    LET inst == InstRecursive(I, inst_value)
    IN  IF I[inst].op = construct THEN Some(Arg(I, inst, IndexOf(first_index)))
        ELSE IF I[inst].op # insert THEN None
        ELSE
        LET value_index == Arg(I, inst, 2)
        IN  IF ~IsImmediate(I, value_index) THEN None
            ELSE IF first_index # Payload(I, value_index)
            THEN LET value_composite == Arg(I, inst, 0)
                 IN  IF IsImmediate(I, value_composite) THEN None
                     ELSE FoldCompositeExtractImpl(I, value_composite, insert, construct, first_index)
            ELSE Some(Arg(I, inst, 1))

\* Mutant of FoldCompositeExtract: lane 0 is looked up, whatever the index.
FoldCompositeExtract_FirstLane(m, i, construct, insert) ==
    LET I == m.insts
        value_1 == Arg(I, i, 0)
        value_2 == Arg(I, i, 1)
    IN  IF IsImmediate(I, value_1) THEN m
        ELSE IF ~IsImmediate(I, value_2) THEN m
        ELSE
        LET result == FoldCompositeExtractImpl(I, value_1, insert, construct, Limbs(0, 4))
        IN  IF ~result.some THEN m ELSE ReplaceUsesWith(m, i, result.val)

FoldCompositeExtract(m, i, construct, insert) ==
    LET I == m.insts
        value_1 == Arg(I, i, 0)
        value_2 == Arg(I, i, 1)
    IN  IF IsImmediate(I, value_1) THEN m
        ELSE IF ~IsImmediate(I, value_2) THEN m
        ELSE
        LET result == FoldCompositeExtractImpl(I, value_1, insert, construct, Payload(I, value_2))
        IN  IF ~result.some THEN m ELSE ReplaceUsesWith(m, i, result.val)

SelectOps ==
    {"SelectU1", "SelectU8", "SelectU16", "SelectU32", "SelectU64", "SelectF16", "SelectF32",
     "SelectF64"}

CompositeShapes == {"F32x2", "F32x3", "F32x4", "F16x2", "F16x3", "F16x4"}

\* "CompositeExtractF32x2" -> "F32x2"
ShapeOf(op) == CHOOSE s \in CompositeShapes : op = "CompositeExtract" \o s

CompositeExtractOps == {"CompositeExtract" \o s : s \in CompositeShapes}

(***************************************************************************)
(* The dispatcher.  b is the block being walked, i the instruction, ub the *)
(* outcome of a shift by the full width, should one happen.                *)
(***************************************************************************)
ConstantPropagation(m, b, i, ub) ==
    LET op == m.insts[i].op
    IN  CASE op = "GetRegister" -> FoldGetRegister(m, i)
          [] op = "GetPred" -> FoldGetPred(m, i)
          [] op = "IAdd32" -> FoldAdd(m, b, i, "U32")
          [] op = "ISub32" -> FoldISub32(m, i)
          [] op = "BitCastF32U32" -> FoldBitCast(m, i, "BitCastF32U32", "F32", "BitCastU32F32")
          [] op = "BitCastU32F32" -> FoldBitCast(m, i, "BitCastU32F32", "U32", "BitCastF32U32")
          [] op = "IAdd64" -> FoldAdd(m, b, i, "U64")
          [] op = "PackHalf2x16" -> FoldInverseFunc(m, i, "UnpackHalf2x16")
          [] op = "UnpackHalf2x16" -> FoldInverseFunc(m, i, "PackHalf2x16")
          [] op \in SelectOps -> FoldSelect(m, i)
          [] op = "FPMul32" -> FoldFPMul32(m, i)
          [] op = "LogicalAnd" -> FoldLogicalAnd(m, i)
          [] op = "LogicalOr" -> FoldLogicalOr(m, i)
          [] op = "LogicalNot" -> FoldLogicalNot(m, i)
          [] op = "SLessThan" -> FoldWhenAllImmediates(m, i, Lambda(op, ub), "U1").m
          [] op = "ULessThan" -> FoldWhenAllImmediates(m, i, Lambda(op, ub), "U1").m
          [] op = "SLessThanEqual" -> FoldWhenAllImmediates(m, i, Lambda(op, ub), "U1").m
          [] op = "ULessThanEqual" -> FoldWhenAllImmediates(m, i, Lambda(op, ub), "U1").m
          [] op = "SGreaterThan" -> FoldWhenAllImmediates(m, i, Lambda(op, ub), "U1").m
          [] op = "UGreaterThan" -> FoldWhenAllImmediates(m, i, Lambda(op, ub), "U1").m
          [] op = "SGreaterThanEqual" -> FoldWhenAllImmediates(m, i, Lambda(op, ub), "U1").m
          [] op = "UGreaterThanEqual" -> FoldWhenAllImmediates(m, i, Lambda(op, ub), "U1").m
          [] op = "IEqual" -> FoldWhenAllImmediates(m, i, Lambda(op, ub), "U1").m
          [] op = "INotEqual" -> FoldWhenAllImmediates(m, i, Lambda(op, ub), "U1").m
          [] op = "BitFieldUExtract" -> FoldWhenAllImmediates(m, i, Lambda(op, ub), "U32").m
          [] op = "BitFieldSExtract" -> FoldWhenAllImmediates(m, i, Lambda(op, ub), "U32").m
          [] op = "BranchConditional" -> FoldBranchConditional(m, i)
          [] op \in CompositeExtractOps ->
                FoldCompositeExtract(m, i, "CompositeConstruct" \o ShapeOf(op),
                                     "CompositeInsert" \o ShapeOf(op))
          [] OTHER -> m

(***************************************************************************)
(* The input programs.  Every program is in SSA form: an operand refers to *)
(* an instruction that is visited earlier.  Blocks are listed in post      *)
(* order, so the entry block comes last.  Pseudo-operations (the carry,    *)
(* overflow, zero and sign of a result) hang on integer arithmetic.        *)
(***************************************************************************)
Program(is, bs) == [insts |-> is, blocks |-> bs]

Reg(n) == Imm("Reg", <<n>>)

Pred(n) == Imm("Pred", <<n>>)

Label(n) == Imm("Label", <<n>>)

MaxU32 == Imm("U32", AllOnes(4))

MaxU64 == Imm("U64", AllOnes(8))

GetRegister(n) == Inst("GetRegister", <<Reg(n)>>, FALSE)

GetCbufU32(slot, offset) == Inst("GetCbufU32", <<ImmU32(slot), ImmU32(offset)>>, FALSE)

\* pairs of operands over vals of which at least one is in must
PairsWith(vals, must) == {a \in (vals \cup must) \X (vals \cup must) : a[1] \in must \/ a[2] \in must}

\* r, c1, c2 ; A ; B : 32-bit adds and subtracts over a register, two
\* constant-buffer reads (of the same or of different places) and immediates
ArithVals == {ImmU32(0), ImmU32(1), MaxU32, Ref(1), Ref(2), Ref(3)}

ArithPrograms ==
    { Program(<<GetRegister(1), GetCbufU32(0, 0), GetCbufU32(0, o2),
                Inst("IAdd32", <<a[1], a[2]>>, pa), Inst(opB, <<b[1], b[2]>>, pb)>>,
              << <<4, 5>>, <<1, 2, 3>> >>) :
        <<o2, a, pa, opB, b, pb>> \in
            {0, 4} \X (ArithVals \X ArithVals) \X BOOLEAN
            \X {"IAdd32", "ISub32"} \X PairsWith(ArithVals, {Ref(4)}) \X BOOLEAN }

\* r, c1, c2 ; S : one 32-bit subtract
SubPrograms ==
    { Program(<<GetRegister(1), GetCbufU32(0, 0), GetCbufU32(0, o2),
                Inst("ISub32", <<a[1], a[2]>>, ps)>>,
              << <<4>>, <<1, 2, 3>> >>) :
        <<o2, a, ps>> \in {0, 4} \X (ArithVals \X ArithVals) \X BOOLEAN }

\* two constant-buffer reads and their difference
CbufPrograms ==
    { Program(<<GetCbufU32(0, 0), GetCbufU32(slot, offset),
                Inst("ISub32", <<Ref(x), Ref(y)>>, ps)>>,
              << <<3>>, <<1, 2>> >>) :
        <<slot, offset, x, y, ps>> \in {0, 1} \X {0, 4} \X {1, 2} \X {1, 2} \X BOOLEAN }

\* r, q = ConvertU64U32(r) ; A ; B : 64-bit adds
Add64Vals == {ImmU64(0), ImmU64(1), MaxU64, Ref(2)}

Add64Programs ==
    { Program(<<GetRegister(1), Inst("ConvertU64U32", <<Ref(1)>>, FALSE),
                Inst("IAdd64", <<a[1], a[2]>>, pa), Inst("IAdd64", <<b[1], b[2]>>, pb)>>,
              << <<4>>, <<1, 2, 3>> >>) :
        <<a, pa, b, pb>> \in
            (Add64Vals \X Add64Vals) \X BOOLEAN \X PairsWith(Add64Vals, {Ref(3)}) \X BOOLEAN }

\* p ; A ; B : logical operations and a conditional branch over a predicate
LogicVals == {ImmU1(TRUE), ImmU1(FALSE), Ref(1)}

LogicInsts(vals, must) ==
    { Inst(op, <<a[1], a[2]>>, FALSE) :
        <<op, a>> \in {"LogicalAnd", "LogicalOr"} \X PairsWith(vals, must) }
    \cup { Inst("LogicalNot", <<a>>, FALSE) : a \in must }

BranchInsts(vals) == { Inst("BranchConditional", <<c, Label(1), Label(2)>>, FALSE) : c \in vals }

LogicPrograms ==
    { Program(<<Inst("GetPred", <<Pred(pr)>>, FALSE), A, B>>, << <<3>>, <<1, 2>> >>) :
        <<pr, A, B>> \in
            {0, 7} \X LogicInsts({}, LogicVals)
            \X (LogicInsts(LogicVals, {Ref(2)}) \cup BranchInsts(LogicVals \cup {Ref(2)})) }

\* The XMAD shape, with each literal, each shared factor, the operand order
\* of the add and its pseudo-operation varied.  The second factor is a
\* register, the immediate 0 or the zero register, which resolves to it.
XmadPrograms ==
    { Program(<<GetRegister(1), GetRegister(2), GetRegister(3),
                Inst("BitFieldUExtract", <<Ref(fa), ImmU32(ro), ImmU32(rc)>>, FALSE),
                Inst("IMul32", <<Ref(4), rb>>, FALSE),
                Inst("BitFieldUExtract", <<Ref(1), ImmU32(lo), ImmU32(lc)>>, FALSE),
                Inst("IMul32", <<Ref(6), lb>>, FALSE),
                Inst("ShiftLeftLogical32", <<Ref(7), ImmU32(sh)>>, FALSE),
                Inst("IAdd32", IF shlFirst THEN <<Ref(8), Ref(5)>> ELSE <<Ref(5), Ref(8)>>, ps),
                Inst("GetRegister", <<RZ>>, FALSE)>>,
              << <<8, 9>>, <<4, 5, 6, 7>>, <<1, 2, 3, 10>> >>) :
        <<fa, ro, rc, lo, lc, lb, rb, sh, shlFirst, ps>> \in
            {1, 3} \X {0, 16} \X {16, 8} \X {16, 0} \X {16, 8}
            \X {Ref(2), Ref(3), ImmU32(0)} \X {Ref(2), Ref(10)} \X {16, 8}
            \X BOOLEAN \X BOOLEAN }

\* one comparison of two immediates or of a register and an immediate
CompareOps ==
    {"SLessThan", "ULessThan", "SLessThanEqual", "ULessThanEqual", "SGreaterThan", "UGreaterThan",
     "SGreaterThanEqual", "UGreaterThanEqual", "IEqual", "INotEqual"}

CompareVals == {ImmU32(0), ImmU32(1), Imm("U32", HighBit(4)), MaxU32}

ComparePrograms ==
    { Program(<<GetRegister(1), Inst(op, <<a, b>>, FALSE)>>, << <<2>>, <<1>> >>) :
        <<op, a, b>> \in CompareOps \X (CompareVals \cup {Ref(1)}) \X CompareVals }

\* r ; a bit-field extract, well-formed or not, and an add after it
ExtractShifts == {ImmU32(0), ImmU32(4), ImmU32(31), ImmU32(32), MaxU32}

ExtractCounts == {ImmU32(0), ImmU32(1), ImmU32(2), ImmU32(28), ImmU32(32)}

ExtractPrograms ==
    { Program(<<GetRegister(1), Inst(op, <<base, shift, count>>, ps),
                Inst("IAdd32", <<Ref(2), ImmU32(0)>>, FALSE)>>, << <<2, 3>>, <<1>> >>) :
        <<op, base, shift, count, ps>> \in
            {"BitFieldUExtract", "BitFieldSExtract"} \X {MaxU32, ImmU32(43981), Ref(1)}
            \X ExtractShifts \X ExtractCounts \X BOOLEAN }

\* r, c ; A ; B ; C : bit casts and half-float packs, of a register, of a
\* constant-buffer read, of an immediate and of one another
ConvertOps == {"BitCastF32U32", "BitCastU32F32", "PackHalf2x16", "UnpackHalf2x16"}

\* the immediates an operation can take: 1 and a signalling NaN, as bits
ConvertImms(op) ==
    CASE op = "BitCastF32U32" -> {ImmU32(1), Imm("U32", <<1, 0, 128, 127>>)}
      [] op = "BitCastU32F32" -> {Imm("F32", Limbs(1, 4)), Imm("F32", <<1, 0, 128, 127>>)}
      [] op = "UnpackHalf2x16" -> {ImmU32(1)}
      [] OTHER -> {}

ConvertPrograms ==
    { Program(<<GetRegister(1), GetCbufU32(0, 0),
                Inst(p[1], <<p[2]>>, FALSE), Inst(opB, <<Ref(3)>>, FALSE),
                Inst(opC, <<Ref(4)>>, FALSE)>>,
              << <<3, 4, 5>>, <<1, 2>> >>) :
        <<p, opB, opC>> \in
            {q \in ConvertOps \X ({Ref(1), Ref(2)} \cup UNION {ConvertImms(o) : o \in ConvertOps}) :
                q[2].ty = "Opaque" \/ q[2] \in ConvertImms(q[1])}
            \X ConvertOps \X ConvertOps }

\* p, r ; S : a select on a predicate or on an immediate condition
SelectPrograms ==
    { Program(<<Inst("GetPred", <<Pred(pr)>>, FALSE), GetRegister(1),
                Inst("SelectU32", <<c, Ref(2), ImmU32(1)>>, FALSE)>>,
              << <<3>>, <<1, 2>> >>) :
        <<pr, c>> \in {0, 7} \X LogicVals }

Attribute(n) == Imm("Attribute", <<n>>)

\* a, b, x ; M = FPMul32 of x and a ; R = FPRecip32(b) ; the product of M and R
FPMulPrograms ==
    { Program(<<Inst("GetAttribute", <<Attribute(0)>>, FALSE),
                Inst("GetAttribute", <<Attribute(at)>>, FALSE), GetRegister(1),
                Inst("FPMul32", l, FALSE), Inst("FPRecip32", <<Ref(2)>>, FALSE),
                [Inst("FPMul32", f, FALSE) EXCEPT !.nc = nc]>>,
              << <<4, 5, 6>>, <<1, 2, 3>> >>) :
        <<at, l, f, nc>> \in
            {0, 1} \X {<<Ref(3), Ref(1)>>, <<Ref(1), Ref(3)>>, <<Ref(1), Ref(2)>>,
                        <<Imm("F32", Limbs(1, 4)), Ref(1)>>}
            \X {<<Ref(4), Ref(5)>>, <<Ref(5), Ref(4)>>} \X BOOLEAN }

\* x, y, z ; a construct, two inserts on top of it, and an extract of one
\* lane.  The lowest composite is the construct, an immediate or a value of
\* another producer; an index is an immediate or a run-time value; the upper
\* insert is of the same shape or of another.
CompositeIndices == {ImmU32(0), ImmU32(1), Ref(3)}

CompositePrograms ==
    { Program(<<GetRegister(1), GetRegister(2), GetRegister(3),
                Inst("CompositeConstructF32x2", <<Ref(1), Ref(2)>>, FALSE),
                Inst("CompositeInsertF32x2", <<base, Ref(3), i1>>, FALSE),
                Inst(op2, <<Ref(5), Ref(1), i2>>, FALSE),
                Inst("CompositeExtractF32x2", <<c, i>>, FALSE)>>,
              << <<4, 5, 6, 7>>, <<1, 2, 3>> >>) :
        <<base, i1, op2, i2, c, i>> \in
            {Ref(4), Ref(2), Imm("F32x2", <<0, 0>>)} \X CompositeIndices
            \X {"CompositeInsertF32x2", "CompositeInsertF16x2"} \X CompositeIndices
            \X {Ref(4), Ref(5), Ref(6), Imm("F32x2", <<0, 0>>)} \X CompositeIndices }

\* "F32x4" -> 4
Lanes(s) ==
    CASE s \in {"F32x2", "F16x2"} -> 2
      [] s \in {"F32x3", "F16x3"} -> 3
      [] s \in {"F32x4", "F16x4"} -> 4

\* x, y, z ; for each shape a construct of all its lanes, an insert into the
\* last lane, and an extract of one lane of either
ShapePrograms ==
    { Program(<<GetRegister(1), GetRegister(2), GetRegister(3),
                Inst("CompositeConstruct" \o q[1],
                     SubSeq(<<Ref(1), Ref(2), Ref(3), Ref(1)>>, 1, Lanes(q[1])), FALSE),
                Inst("CompositeInsert" \o q[1], <<Ref(4), Ref(2), ImmU32(Lanes(q[1]) - 1)>>, FALSE),
                Inst("CompositeExtract" \o q[1], <<Ref(q[2]), ImmU32(q[3])>>, FALSE)>>,
              << <<4, 5, 6>>, <<1, 2, 3>> >>) :
        q \in {r \in CompositeShapes \X {4, 5} \X (0..3) : r[3] < Lanes(r[1])} }

\* an add that folds ; a bit-field extract of it or of an immediate, well-formed
\* or not ; an add of the extract and a subtraction, both foldable, the
\* subtraction in the same block or in the block visited next
AbortPrograms ==
    { Program(<<Inst("IAdd32", <<ImmU32(1), ImmU32(2)>>, FALSE),
                Inst(op, <<base, shift, count>>, FALSE),
                Inst("IAdd32", <<Ref(2), ImmU32(0)>>, FALSE),
                Inst("ISub32", <<ImmU32(1), ImmU32(1)>>, FALSE)>>, bs) :
        <<op, base, shift, count, bs>> \in
            {"BitFieldUExtract", "BitFieldSExtract"} \X {Ref(1), MaxU32}
            \X {ImmU32(0), ImmU32(31), MaxU32} \X {ImmU32(1), ImmU32(2), ImmU32(32)}
            \X { << <<4>>, <<1, 2, 3>> >>, << <<3, 4>>, <<2>>, <<1>> >>, << <<1, 2, 3, 4>> >> } }

Programs ==
    ComparePrograms \cup ExtractPrograms \cup ConvertPrograms \cup SelectPrograms \cup
    FPMulPrograms \cup CompositePrograms \cup ShapePrograms \cup
    ArithPrograms \cup SubPrograms \cup CbufPrograms \cup Add64Programs \cup LogicPrograms \cup XmadPrograms \cup
    AbortPrograms

(***************************************************************************)
(* The pass: for each block in reverse post order, for each instruction of *)
(* the block in program order, ConstantPropagation.                        *)
(***************************************************************************)
First(s) == IF s = <<>> THEN 0 ELSE s[1]

\* the instruction after x in s, 0 at the end
Succ(s, x) ==
    LET pos == CHOOSE k \in 1..Len(s) : s[k] = x
    IN  IF pos = Len(s) THEN 0 ELSE s[pos + 1]

\* only the bit-field extracts shift by a variable amount
UbChoices(op) ==
    IF op \in {"BitFieldUExtract", "BitFieldSExtract"} THEN ShiftOutcomes ELSE {"wrap"}

\* before, when the last step visited no instruction
NoVisit == [inst |-> 0, insts |-> <<>>, blocks |-> <<>>, nlog |-> 0]

Init ==
    \E p \in Programs :
        /\ orig = p
        /\ insts = p.insts
        /\ blocks = p.blocks
        /\ bi = Len(p.blocks)
        /\ cur = First(p.blocks[Len(p.blocks)])
        /\ pc = "run"
        /\ run = 1
        /\ log = <<>>
        /\ before = NoVisit

\* the body of the inner loop, and the step to the next instruction
VisitInst ==
    /\ pc = "run"
    /\ cur # 0
    /\ \E ub \in UbChoices(insts[cur].op) :
        LET m == ConstantPropagation([insts |-> insts, blocks |-> blocks, log |-> log, err |-> FALSE],
                                     bi, cur, ub)
        IN  /\ insts' = m.insts
            /\ blocks' = m.blocks
            /\ log' = m.log
            /\ pc' = IF m.err THEN "error" ELSE "run"
            /\ cur' = IF m.err THEN cur ELSE Succ(m.blocks[bi], cur)
    /\ before' = [inst |-> cur, insts |-> insts, blocks |-> blocks, nlog |-> Len(log)]
    /\ UNCHANGED <<bi, run, orig>>

\* the inner loop is over: the outer loop steps to the next block
NextBlock ==
    /\ pc = "run"
    /\ cur = 0
    /\ bi > 1
    /\ bi' = bi - 1
    /\ cur' = First(blocks[bi - 1])
    /\ before' = NoVisit
    /\ UNCHANGED <<insts, blocks, pc, run, log, orig>>

\* the outer loop is over: the pass returns
EndPass ==
    /\ pc = "run"
    /\ cur = 0
    /\ bi = 1
    /\ pc' = "done"
    /\ before' = NoVisit
    /\ UNCHANGED <<insts, blocks, bi, cur, run, log, orig>>

\* the pass is called again on the program it produced
RunAgain ==
    /\ pc = "done"
    /\ run < MaxRuns
    /\ run' = run + 1
    /\ bi' = Len(blocks)
    /\ cur' = First(blocks[Len(blocks)])
    /\ pc' = "run"
    /\ before' = NoVisit
    /\ UNCHANGED <<insts, blocks, log, orig>>

Next == VisitInst \/ NextBlock \/ EndPass \/ RunAgain

Spec == Init /\ [][Next]_vars

(***************************************************************************)
(* FoldCommutative on its own.  The instruction it is given has operands   *)
(* among the immediates of its type, a value x, an alias of an immediate   *)
(* and the result of an instruction P, which has such operands too and the *)
(* same or another opcode.  P is as the front end wrote it.                *)
(***************************************************************************)
CommutativeOps == {"IAdd32", "IAdd64", "LogicalAnd", "LogicalOr"}

CommutativeImms(op) ==
    CASE op = "IAdd32" -> {ImmU32(0), ImmU32(1), MaxU32}
      [] op = "IAdd64" -> {ImmU64(0), ImmU64(1), MaxU64}
      [] OTHER -> {ImmU1(TRUE), ImmU1(FALSE)}

\* an opcode of the same operand type
OtherOp(op) ==
    CASE op = "IAdd32" -> "ISub32"
      [] op = "IAdd64" -> "ISub64"
      [] op = "LogicalAnd" -> "LogicalOr"
      [] op = "LogicalOr" -> "LogicalAnd"

\* the instruction that yields x, by the type of the operation
SourceOf(op) ==
    CASE op = "IAdd32" -> GetRegister(1)
      [] op = "IAdd64" -> Inst("GetCbufU64", <<ImmU32(0), ImmU32(0)>>, FALSE)
      [] OTHER -> Inst("GetPred", <<Pred(0)>>, FALSE)

CommutativeImmFn(op) ==
    CASE op = "IAdd32" -> "a + b"
      [] op = "IAdd64" -> "a + b"
      [] op = "LogicalAnd" -> "a && b"
      [] op = "LogicalOr" -> "a || b"

CommutativeType(op) ==
    CASE op = "IAdd32" -> "U32"
      [] op = "IAdd64" -> "U64"
      [] OTHER -> "U1"

\* the immediate that the alias stands for
AliasedImm(op) ==
    CASE op = "IAdd32" -> ImmU32(1)
      [] op = "IAdd64" -> ImmU64(1)
      [] OTHER -> ImmU1(TRUE)

CommutativePrograms ==
    UNION { { Program(<<SourceOf(op), Inst("Identity", <<AliasedImm(op)>>, FALSE),
                        Inst(q[1], <<q[2], q[3]>>, FALSE), Inst(op, <<q[4], q[5]>>, FALSE)>>,
                      << <<1, 2, 3, 4>> >>) :
                q \in {op, OtherOp(op)}
                      \X (CommutativeImms(op) \cup {Ref(1), Ref(2)})
                      \X (CommutativeImms(op) \cup {Ref(1), Ref(2)})
                      \X (CommutativeImms(op) \cup {Ref(1), Ref(2), Ref(3)})
                      \X (CommutativeImms(op) \cup {Ref(1), Ref(2), Ref(3)}) } :
            op \in CommutativeOps }

InitCommutative ==
    \E p \in CommutativePrograms :
        /\ orig = p
        /\ insts = p.insts
        /\ blocks = p.blocks
        /\ bi = 1
        /\ cur = Len(p.insts)
        /\ pc = "fold"
        /\ run = 1
        /\ log = <<>>
        /\ before = NoVisit

\* FoldCommutative<T>(inst, imm_fn), as FoldAdd, FoldLogicalAnd and
\* FoldLogicalOr call it
ApplyFoldCommutative ==
    /\ pc = "fold"
    /\ LET op == insts[cur].op
           fc == FoldCommutative([insts |-> insts, blocks |-> blocks, log |-> log, err |-> FALSE],
                                 cur, CommutativeImmFn(op), CommutativeType(op))
       IN  /\ insts' = fc.m.insts
           /\ log' = fc.m.log
           /\ pc' = IF fc.ret THEN "go on" ELSE "folded"
    /\ before' = [inst |-> cur, insts |-> insts, blocks |-> blocks, nlog |-> Len(log)]
    /\ UNCHANGED <<blocks, bi, cur, run, orig>>

NextCommutative == ApplyFoldCommutative

SpecCommutative == InitCommutative /\ [][NextCommutative]_vars

(***************************************************************************)
(* What the last step did.                                                 *)
(***************************************************************************)
Visited == before.inst

\* the visited instruction as it was before the step
Was == before.insts[before.inst]

ReplacedNow == before.inst # 0 /\ Len(log) > before.nlog

\* the last step called ReplaceUsesWith(val) on the visited instruction
ReplacedBy(val) == ReplacedNow /\ log[Len(log)] = [inst |-> before.inst, val |-> val]

Unchanged == insts = before.insts /\ blocks = before.blocks /\ Len(log) = before.nlog

\* operand k (0-based) of the visited instruction, before the step
WasArg(k) == before.insts[before.inst].args[k + 1]

WasImmediate(val) == IsImmediate(before.insts, val)

\* the opcode of the producer of a non-immediate, before the step
WasProducer(val) == before.insts[InstRecursive(before.insts, val)]

(***************************************************************************)
(* Run-time values.  An environment gives the register file and the        *)
(* constant buffers their contents; EvalU32 is the 32-bit value an IR      *)
(* value then has.                                                         *)
(***************************************************************************)
RunTimeWords == {Limbs(1, 4), Limbs(2, 4)}

CbufPlaces == {0, 1} \X {0, 4}

Envs == [reg : RunTimeWords, cbuf : [CbufPlaces -> RunTimeWords]]

RECURSIVE EvalU32(_, _, _)
EvalU32(I, val, env) ==
    IF val.ty # "Opaque" THEN val.v
    ELSE LET op == I[val.id].op
             a == I[val.id].args
         IN  CASE op = "Identity" -> EvalU32(I, a[1], env)
               [] op = "IAdd32" -> AddW(EvalU32(I, a[1], env), EvalU32(I, a[2], env))
               [] op = "ISub32" -> SubW(EvalU32(I, a[1], env), EvalU32(I, a[2], env))
               [] op = "GetCbufU32" -> env.cbuf[<<IndexOf(a[1].v), IndexOf(a[2].v)>>]
               [] op = "GetRegister" -> IF a[1] = RZ THEN Limbs(0, 4) ELSE env.reg
               [] OTHER -> Limbs(0, 4)

(***************************************************************************)
(* C1.  An instruction that has an associated pseudo-operation never has   *)
(* its result replaced: ReplaceUsesWith is never applied to it, whichever  *)
(* folding rule the dispatcher selects.                                    *)
(***************************************************************************)
C1_PseudoNeverReplaced == \A k \in 1..Len(log) : ~insts[log[k].inst].pseudo

(***************************************************************************)
(* C2.  Whenever FoldISub32 replaces the result of an ISub32, the          *)
(* replacement equals (Arg0 - Arg1) mod 2^32 for every run-time value of   *)
(* the registers and of the constant buffers.  (Stated for the ISub32      *)
(* without pseudo-operation, which the pass may replace.)                  *)
(***************************************************************************)
C2_SubFoldExact ==
    (ReplacedNow /\ Was.op = "ISub32" /\ ~Was.pseudo) =>
        \A env \in Envs :
            EvalU32(insts, Ref(Visited), env)
                = SubW(EvalU32(before.insts, WasArg(0), env), EvalU32(before.insts, WasArg(1), env))

(***************************************************************************)
(* C3.  Running the pass a second time on the program the first run        *)
(* produced is a no-op: no instruction's opcode or operands change, no     *)
(* result is replaced and no instruction is emitted.                       *)
(***************************************************************************)
C3_SecondRunNoOp == (run >= 2 /\ Visited # 0) => Unchanged

NoPseudo == \A i \in 1..Len(orig.insts) : ~orig.insts[i].pseudo

\* C3 as amended: the second run is a no-op on every program in which no
\* instruction has an associated pseudo-operation.
C3_SecondRunNoOpWithoutPseudo == (NoPseudo /\ run >= 2 /\ Visited # 0) => Unchanged

\* a second run has gone over a pseudo-free program in which the first run
\* folded the XMAD idiom
C3_Witness ==
    /\ NoPseudo
    /\ run = 2
    /\ pc = "done"
    /\ Len(insts) > Len(orig.insts)

(***************************************************************************)
(* C4.  After the pass every block holds exactly the instructions it held  *)
(* before, in the same order: none deleted, none moved, none added.        *)
(***************************************************************************)
C4_BlocksKept == pc = "done" => blocks = orig.blocks

IsOld(i) == i <= Len(orig.insts)

\* C4 as amended: the pass deletes and moves no instruction; the only
\* instructions it adds are the IMul32 of the XMAD fold, each put right
\* before the IAdd32 whose result it replaces.
C4_OnlyXmadAdds ==
    /\ Len(blocks) = Len(orig.blocks)
    /\ \A b \in 1..Len(blocks) :
        /\ SelectSeq(blocks[b], IsOld) = orig.blocks[b]
        /\ \A k \in 1..Len(blocks[b]) :
            ~IsOld(blocks[b][k]) =>
                /\ insts[blocks[b][k]].op = "IMul32"
                /\ k < Len(blocks[b])
                /\ IsOld(blocks[b][k + 1])
                /\ orig.insts[blocks[b][k + 1]].op = "IAdd32"
                /\ insts[blocks[b][k + 1]].op = "Identity"
                /\ insts[blocks[b][k + 1]].args = <<Ref(blocks[b][k])>>

C4_Witness == pc = "done" /\ Len(insts) > Len(orig.insts)

(***************************************************************************)
(* C5.  An ISub32 whose first operand is IAdd32(X, cbuf) and whose second  *)
(* operand is a GetCbufU32 of the same slot and offset as cbuf has its     *)
(* result replaced by X, for any X (immediate or not).                     *)
(***************************************************************************)
C5_Pre ==
    /\ Visited # 0
    /\ Was.op = "ISub32"
    /\ ~WasImmediate(WasArg(0))
    /\ ~WasImmediate(WasArg(1))
    /\ WasProducer(WasArg(0)).op = "IAdd32"
    /\ WasProducer(WasArg(1)).op = "GetCbufU32"
    /\ ~WasImmediate(WasProducer(WasArg(0)).args[2])
    /\ WasProducer(WasProducer(WasArg(0)).args[2]).op = "GetCbufU32"
    /\ WasProducer(WasProducer(WasArg(0)).args[2]).args = WasProducer(WasArg(1)).args

C5_AddThenSubFoldsToX == C5_Pre => ReplacedBy(WasProducer(WasArg(0)).args[1])

C5_Witness == C5_Pre /\ ReplacedBy(WasProducer(WasArg(0)).args[1])

(***************************************************************************)
(* C6.  An ISub32 of two GetCbufU32 reads with equal slot and equal offset *)
(* has its result replaced by the immediate 0; if the slots or the offsets *)
(* differ, it is not replaced by 0.                                        *)
(***************************************************************************)
C6_Pre ==
    /\ Visited # 0
    /\ Was.op = "ISub32"
    /\ ~WasImmediate(WasArg(0))
    /\ ~WasImmediate(WasArg(1))
    /\ WasProducer(WasArg(0)).op = "GetCbufU32"
    /\ WasProducer(WasArg(1)).op = "GetCbufU32"

C6_SamePlace == WasProducer(WasArg(0)).args = WasProducer(WasArg(1)).args

C6_SameCbufFoldsToZero ==
    C6_Pre => (ReplacedBy(ImmU32(0)) <=> C6_SamePlace)

\* two different instructions reading the same place
C6_Witness ==
    /\ C6_Pre
    /\ C6_SamePlace
    /\ InstRecursive(before.insts, WasArg(0)) # InstRecursive(before.insts, WasArg(1))
    /\ ReplacedBy(ImmU32(0))

(***************************************************************************)
(* Addition modulo 2^(16 n), written on 16-bit digits: what the claims     *)
(* mean by (a + b) mod 2^32 and (a + b) mod 2^64.                          *)
(***************************************************************************)
Digit(a, h) == a[2 * h - 1] + 256 * a[2 * h]

RECURSIVE DigitCarry(_, _, _)
DigitCarry(a, b, h) ==
    IF h = 1 THEN 0
    ELSE (Digit(a, h - 1) + Digit(b, h - 1) + DigitCarry(a, b, h - 1)) \div 65536

SumDigit(a, b, h) == (Digit(a, h) + Digit(b, h) + DigitCarry(a, b, h)) % 65536

SumMod(a, b) ==
    [k \in 1..Len(a) |->
        IF k % 2 = 1 THEN SumDigit(a, b, (k + 1) \div 2) % 256
        ELSE SumDigit(a, b, k \div 2) \div 256]

AddOps == {"IAdd32", "IAdd64"}

TypeOfAdd(op) == IF op = "IAdd32" THEN "U32" ELSE "U64"

WasPayload(val) == Payload(before.insts, val)

(***************************************************************************)
(* C7.  An IAdd32 with immediate operands a and b and no pseudo-operation  *)
(* has its result replaced by the immediate (a + b) mod 2^32; an IAdd64    *)
(* with 64-bit immediates by (a + b) mod 2^64.                             *)
(***************************************************************************)
C7_Pre ==
    /\ Visited # 0
    /\ Was.op \in AddOps
    /\ ~Was.pseudo
    /\ WasImmediate(WasArg(0))
    /\ WasImmediate(WasArg(1))

C7_ImmediateAddFolds ==
    C7_Pre =>
        ReplacedBy(Imm(TypeOfAdd(Was.op), SumMod(WasPayload(WasArg(0)), WasPayload(WasArg(1)))))

\* a 64-bit sum that wraps around: (2^64 - 1) + 1 = 0
C7_Witness ==
    /\ C7_Pre
    /\ Was.op = "IAdd64"
    /\ WasArg(0) = MaxU64
    /\ WasArg(1) = ImmU64(1)
    /\ ReplacedBy(ImmU64(0))

\* a 32-bit sum that wraps around: (2^32 - 1) + (2^32 - 1) = 2^32 - 2
C7_Witness32 ==
    /\ C7_Pre
    /\ Was.op = "IAdd32"
    /\ WasArg(0) = MaxU32
    /\ WasArg(1) = MaxU32
    /\ ReplacedBy(Imm("U32", <<254, 255, 255, 255>>))

(***************************************************************************)
(* C8.  An IAdd32 or IAdd64 without pseudo-operation that has a            *)
(* non-immediate x as one operand and the immediate 0 as the other, in     *)
(* either position, has its result replaced by x itself.                   *)
(***************************************************************************)
\* the visited add has x at operand k and the immediate 0 at the other
C8_ZeroBeside(k) ==
    /\ Visited # 0
    /\ Was.op \in AddOps
    /\ ~Was.pseudo
    /\ ~WasImmediate(WasArg(k))
    /\ WasImmediate(WasArg(1 - k))
    /\ IsZero(WasPayload(WasArg(1 - k)))

C8_AddZeroFoldsToX == \A k \in {0, 1} : C8_ZeroBeside(k) => ReplacedBy(WasArg(k))

\* x is itself the result of an add of the same opcode with an immediate
\* second operand
C8_ChainedAdd(k) ==
    /\ WasProducer(WasArg(k)).op = Was.op
    /\ WasImmediate(WasProducer(WasArg(k)).args[2])

\* C8 as amended: ... is replaced by x itself, unless x is produced by an
\* add of the same opcode whose second operand is immediate.
C8_AddZeroFoldsToXUnlessChained ==
    \A k \in {0, 1} : (C8_ZeroBeside(k) /\ ~C8_ChainedAdd(k)) => ReplacedBy(WasArg(k))

\* 0 + x, the immediate first
C8_Witness == C8_ZeroBeside(1) /\ ~C8_ChainedAdd(1) /\ ReplacedBy(WasArg(1))

(***************************************************************************)
(* C9.  With x non-immediate and the constant in either position:          *)
(* LogicalAnd(x, true) is replaced by x, LogicalAnd(x, false) by false,    *)
(* LogicalOr(x, false) by x and LogicalOr(x, true) by true.                *)
(***************************************************************************)
\* the visited instruction is op with x at operand k and the immediate c beside it
C9_ConstBeside(op, k, c) ==
    /\ Visited # 0
    /\ Was.op = op
    /\ ~WasImmediate(WasArg(k))
    /\ WasImmediate(WasArg(1 - k))
    /\ U1(before.insts, WasArg(1 - k)) = c

C9_LogicalIdentities ==
    \A k \in {0, 1} :
        /\ C9_ConstBeside("LogicalAnd", k, TRUE) => ReplacedBy(WasArg(k))
        /\ C9_ConstBeside("LogicalAnd", k, FALSE) => ReplacedBy(ImmU1(FALSE))
        /\ C9_ConstBeside("LogicalOr", k, FALSE) => ReplacedBy(WasArg(k))
        /\ C9_ConstBeside("LogicalOr", k, TRUE) => ReplacedBy(ImmU1(TRUE))

\* LogicalOr(true, x), the constant first
C9_Witness == C9_ConstBeside("LogicalOr", 1, TRUE) /\ ReplacedBy(ImmU1(TRUE))

(***************************************************************************)
(* C10.  A LogicalNot of an immediate b is replaced by the immediate       *)
(* not-b; a LogicalNot of the result of a LogicalNot(x) is replaced by x;  *)
(* any other LogicalNot is left unchanged.                                 *)
(***************************************************************************)
C10_LogicalNot ==
    (Visited # 0 /\ Was.op = "LogicalNot") =>
        IF WasImmediate(WasArg(0))
        THEN ReplacedBy(ImmU1(~U1(before.insts, WasArg(0))))
        ELSE IF WasProducer(WasArg(0)).op = "LogicalNot"
        THEN ReplacedBy(WasProducer(WasArg(0)).args[1])
        ELSE Unchanged

\* a double negation was cancelled
C10_Witness ==
    /\ Visited # 0
    /\ Was.op = "LogicalNot"
    /\ ~WasImmediate(WasArg(0))
    /\ WasProducer(WasArg(0)).op = "LogicalNot"
    /\ ReplacedBy(WasProducer(WasArg(0)).args[1])

(***************************************************************************)
(* C11.  For BitCastF32U32 / BitCastU32F32 and PackHalf2x16 /              *)
(* UnpackHalf2x16, in both directions: an instruction whose operand is     *)
(* produced by the inverse operation applied to x has its result replaced  *)
(* by x.                                                                   *)
(***************************************************************************)
InverseOf(op) ==
    CASE op = "BitCastF32U32" -> "BitCastU32F32"
      [] op = "BitCastU32F32" -> "BitCastF32U32"
      [] op = "PackHalf2x16" -> "UnpackHalf2x16"
      [] op = "UnpackHalf2x16" -> "PackHalf2x16"

\* the visited conversion has, as the pass finds it, an operand produced by
\* the inverse operation
C11_Pre ==
    /\ Visited # 0
    /\ Was.op \in ConvertOps
    /\ ~WasImmediate(WasArg(0))
    /\ WasProducer(WasArg(0)).op = InverseOf(Was.op)

\* the visited conversion has, in the program given to the pass, an operand
\* produced by the inverse operation
C11_PreOnInput ==
    /\ Visited # 0
    /\ run = 1
    /\ IsOld(Visited)
    /\ orig.insts[Visited].op \in ConvertOps
    /\ orig.insts[Visited].args[1].ty = "Opaque"
    /\ orig.insts[orig.insts[Visited].args[1].id].op = InverseOf(orig.insts[Visited].op)

\* C11 as stated, on the program given to the pass: the result is replaced
\* by a value that resolves to x.
C11_InverseCancels ==
    C11_PreOnInput =>
        /\ ReplacedNow
        /\ Resolve(insts, log[Len(log)].val)
             = Resolve(insts, orig.insts[orig.insts[Visited].args[1].id].args[1])

\* C11 as amended: ... whose operand is, when the pass visits it, still
\* produced by the inverse operation applied to x ...
C11_InverseCancelsWhenVisited ==
    C11_Pre => ReplacedBy(WasProducer(WasArg(0)).args[1])

\* PackHalf2x16(UnpackHalf2x16(x)) with x an immediate, which the pass does
\* not fold on its own
C11_Witness ==
    /\ C11_Pre
    /\ Was.op = "PackHalf2x16"
    /\ WasProducer(WasArg(0)).args[1] = ImmU32(1)
    /\ ReplacedBy(ImmU32(1))

\* BitCastF32U32(BitCastU32F32(x)) with x a register
C11_WitnessBitCast ==
    /\ C11_Pre
    /\ Was.op = "BitCastF32U32"
    /\ ReplacedBy(Ref(1))

(***************************************************************************)
(* C12.  A BitFieldUExtract with immediate base, shift and count,          *)
(* shift + count <= 32 (count = 32 with shift = 0 and count = 0 with       *)
(* shift = 32 included), is replaced by the immediate holding bits         *)
(* [shift, shift + count) of base: floor(base / 2^shift) mod 2^count.      *)
(* (Stated for the extract without pseudo-operation.)                      *)
(***************************************************************************)
C12_Pre ==
    /\ Visited # 0
    /\ Was.op = "BitFieldUExtract"
    /\ ~Was.pseudo
    /\ \A k \in 0..2 : WasImmediate(WasArg(k))
    /\ SizeT(WasPayload(WasArg(1))) + SizeT(WasPayload(WasArg(2))) <= 32

\* bits [shift, shift + count) of base, bit by bit
BitsOf(base, shift, count) ==
    FromBits([k \in 0..31 |-> IF k < count /\ k + shift <= 31 THEN BitAt(base, k + shift) ELSE 0])

C12_UExtractExact ==
    C12_Pre =>
        ReplacedBy(Imm("U32", BitsOf(WasPayload(WasArg(0)), SizeT(WasPayload(WasArg(1))),
                                     SizeT(WasPayload(WasArg(2))))))

(***************************************************************************)
(* C13.  The pass raises the logic error if and only if it visits a        *)
(* BitFieldUExtract or BitFieldSExtract without pseudo-operation, with     *)
(* three immediate arguments, whose shift + count exceeds 32 as a          *)
(* mathematical sum (also when the 32-bit sum would wrap around); nothing  *)
(* else raises an error.                                                   *)
(***************************************************************************)
\* p + q > 32 for two 32-bit numbers given by their limbs
SumExceeds32(p, q) ==
    \/ p[2] + p[3] + p[4] + q[2] + q[3] + q[4] > 0
    \/ p[1] + q[1] > 32

C13_Malformed ==
    /\ Visited # 0
    /\ Was.op \in {"BitFieldUExtract", "BitFieldSExtract"}
    /\ ~Was.pseudo
    /\ \A k \in 0..2 : WasImmediate(WasArg(k))
    /\ SumExceeds32(WasPayload(WasArg(1)), WasPayload(WasArg(2)))

C13_ErrorIffMalformedExtract == (pc = "error") <=> C13_Malformed

\* the error on shift = 2^32 - 1, count = 2, whose 32-bit sum is 1
C13_Witness ==
    /\ pc = "error"
    /\ C13_Malformed
    /\ Was.op = "BitFieldUExtract"
    /\ WasArg(1) = MaxU32
    /\ WasArg(2) = ImmU32(2)

(***************************************************************************)
(* C14.  A CompositeExtract with immediate lane index i, over a chain of   *)
(* same-shape CompositeInsert with immediate indices that ends in a        *)
(* CompositeConstruct, is replaced by the value of the outermost insert    *)
(* whose index is i, or by the construct's i-th argument if there is none. *)
(* It is left unfolded when the chain reaches an immediate composite, an   *)
(* insert with non-immediate index or any other producer before index i is *)
(* resolved.                                                               *)
(***************************************************************************)
\* The chain below a composite value: the producers met going down through
\* the inserts of the given opcode, outermost first; 0 stands for an
\* immediate composite.
RECURSIVE C14_Chain(_, _, _)
C14_Chain(I, val, insert) ==
    IF IsImmediate(I, val) THEN <<0>>
    ELSE LET p == InstRecursive(I, val)
         IN  IF I[p].op = insert THEN <<p>> \o C14_Chain(I, I[p].args[1], insert) ELSE <<p>>

C14_Pre ==
    /\ Visited # 0
    /\ Was.op \in CompositeExtractOps
    /\ WasImmediate(WasArg(1))

C14_Insert == "CompositeInsert" \o ShapeOf(Was.op)

C14_Construct == "CompositeConstruct" \o ShapeOf(Was.op)

C14_TheChain == C14_Chain(before.insts, WasArg(0), C14_Insert)

\* the insert at place k of the chain writes lane i
C14_Hit(k) ==
    LET p == C14_TheChain[k]
    IN  /\ p # 0
        /\ before.insts[p].op = C14_Insert
        /\ WasImmediate(before.insts[p].args[3])
        /\ WasPayload(before.insts[p].args[3]) = WasPayload(WasArg(1))

\* the chain ends at place k in a construct
C14_End(k) ==
    LET p == C14_TheChain[k]
    IN  p # 0 /\ before.insts[p].op = C14_Construct

\* the search cannot go on at place k
C14_Stop(k) ==
    LET p == C14_TheChain[k]
    IN  \/ p = 0
        \/ /\ p # 0
           /\ \/ before.insts[p].op \notin {C14_Insert, C14_Construct}
              \/ before.insts[p].op = C14_Insert /\ ~WasImmediate(before.insts[p].args[3])

\* the first place of the chain that decides
C14_Decisive ==
    CHOOSE k \in 1..Len(C14_TheChain) :
        /\ C14_Hit(k) \/ C14_End(k) \/ C14_Stop(k)
        /\ \A j \in 1..(k - 1) : ~(C14_Hit(j) \/ C14_End(j) \/ C14_Stop(j))

C14_CompositeExtract ==
    C14_Pre =>
        LET k == C14_Decisive
            p == C14_TheChain[k]
        IN  IF C14_Hit(k) THEN ReplacedBy(before.insts[p].args[2])
            ELSE IF C14_End(k)
            THEN ReplacedBy(before.insts[p].args[IndexOf(WasPayload(WasArg(1))) + 1])
            ELSE Unchanged

\* lane 0 found in the lower of two inserts, below an insert into lane 1
C14_Witness ==
    /\ C14_Pre
    /\ Len(C14_TheChain) = 3
    /\ ~C14_Hit(1)
    /\ C14_Hit(2)
    /\ ReplacedBy(Ref(3))

\* lane 2 of a four-lane construct found below an insert into lane 3
C14_WitnessConstruct ==
    /\ C14_Pre
    /\ Was.op = "CompositeExtractF32x4"
    /\ Len(C14_TheChain) = 2
    /\ C14_End(2)
    /\ WasArg(1) = ImmU32(2)
    /\ ReplacedBy(Ref(3))

\* the search stopped by an insert with a run-time index
C14_WitnessUnfolded ==
    /\ C14_Pre
    /\ C14_Stop(C14_Decisive)
    /\ C14_TheChain[C14_Decisive] # 0
    /\ before.insts[C14_TheChain[C14_Decisive]].op = C14_Insert
    /\ Unchanged

(***************************************************************************)
(* C15.  An IAdd32 without pseudo-operation whose first operand is         *)
(* ShiftLeftLogical32(IMul32(BitFieldUExtract(A, 16, 16), B), 16) and      *)
(* whose second operand is IMul32(BitFieldUExtract(A, 0, 16), B), the two  *)
(* A and the two B resolving to the same values, is replaced by a newly    *)
(* emitted IMul32(A, B); if the shift amount, an extract offset or an      *)
(* extract width differs from these literals, or the shared factors        *)
(* differ, it is not replaced by a multiply.                               *)
(***************************************************************************)
C15_IsProducedBy(val, op) == ~WasImmediate(val) /\ WasProducer(val).op = op

C15_Shl == WasProducer(WasArg(0))

C15_LhsMul == WasProducer(C15_Shl.args[1])

C15_RhsMul == WasProducer(WasArg(1))

C15_LhsBfe == WasProducer(C15_LhsMul.args[1])

C15_RhsBfe == WasProducer(C15_RhsMul.args[1])

\* the visited add is over a shifted product of an extract and a product of
\* an extract, whatever the literals and the factors
C15_Shape ==
    /\ Visited # 0
    /\ Was.op = "IAdd32"
    /\ ~Was.pseudo
    /\ C15_IsProducedBy(WasArg(0), "ShiftLeftLogical32")
    /\ C15_IsProducedBy(C15_Shl.args[1], "IMul32")
    /\ C15_IsProducedBy(WasArg(1), "IMul32")
    /\ C15_IsProducedBy(C15_LhsMul.args[1], "BitFieldUExtract")
    /\ C15_IsProducedBy(C15_RhsMul.args[1], "BitFieldUExtract")

C15_Literals ==
    /\ C15_Shl.args[2] = ImmU32(16)
    /\ C15_LhsBfe.args[2] = ImmU32(16)
    /\ C15_LhsBfe.args[3] = ImmU32(16)
    /\ C15_RhsBfe.args[2] = ImmU32(0)
    /\ C15_RhsBfe.args[3] = ImmU32(16)

C15_SharedFactors ==
    /\ Resolve(before.insts, C15_LhsBfe.args[1]) = Resolve(before.insts, C15_RhsBfe.args[1])
    /\ Resolve(before.insts, C15_LhsMul.args[2]) = Resolve(before.insts, C15_RhsMul.args[2])

\* one instruction was emitted, an IMul32 of values resolving to A and B, and
\* the add's result was replaced by it
C15_ReplacedByMultiply ==
    /\ Len(insts) = Len(before.insts) + 1
    /\ insts[Len(insts)].op = "IMul32"
    /\ Resolve(insts, insts[Len(insts)].args[1]) = Resolve(before.insts, C15_LhsBfe.args[1])
    /\ Resolve(insts, insts[Len(insts)].args[2]) = Resolve(before.insts, C15_LhsMul.args[2])
    /\ ReplacedBy(Ref(Len(insts)))

C15_XmadFold ==
    C15_Shape =>
        IF C15_Literals /\ C15_SharedFactors THEN C15_ReplacedByMultiply ELSE Unchanged

\* the fold, with the second factor once the immediate 0 and once the zero
\* register
C15_Witness ==
    /\ C15_Shape
    /\ C15_Literals
    /\ C15_SharedFactors
    /\ C15_LhsMul.args[2] # C15_RhsMul.args[2]
    /\ C15_ReplacedByMultiply

\* no fold, for a shift by 8 alone
C15_WitnessUnfolded ==
    /\ C15_Shape
    /\ C15_SharedFactors
    /\ C15_Shl.args[2] = ImmU32(8)
    /\ C15_LhsBfe.args[2] = ImmU32(16)
    /\ C15_LhsBfe.args[3] = ImmU32(16)
    /\ C15_RhsBfe.args[2] = ImmU32(0)
    /\ C15_RhsBfe.args[3] = ImmU32(16)
    /\ Unchanged

(***************************************************************************)
(* C16.  An FPMul32 whose no-contraction flag is not set and whose         *)
(* operands are FPMul32(attrA, X) and FPRecip32(attrB), attrA and attrB    *)
(* being GetAttribute reads of the same attribute, is replaced by X; with  *)
(* the flag set the FPMul32 is never replaced.                             *)
(***************************************************************************)
C16_Mul == WasProducer(WasArg(0))

C16_Recip == WasProducer(WasArg(1))

\* val is a read of the attribute that the reciprocal is taken of
C16_ReadsSameAttribute(val) ==
    /\ ~WasImmediate(val)
    /\ WasProducer(val).op = "GetAttribute"
    /\ ~WasImmediate(C16_Recip.args[1])
    /\ WasProducer(C16_Recip.args[1]).op = "GetAttribute"
    /\ WasProducer(val).args = WasProducer(C16_Recip.args[1]).args

\* the visited FPMul32 is a product of a product and a reciprocal, the inner
\* product having the attribute read at operand k
C16_Pre(k) ==
    /\ Visited # 0
    /\ Was.op = "FPMul32"
    /\ ~Was.nc
    /\ ~WasImmediate(WasArg(0))
    /\ ~WasImmediate(WasArg(1))
    /\ C16_Mul.op = "FPMul32"
    /\ C16_Recip.op = "FPRecip32"
    /\ C16_ReadsSameAttribute(C16_Mul.args[k + 1])

C16_FlagKeeps == (Visited # 0 /\ Was.op = "FPMul32" /\ Was.nc) => Unchanged

\* C16 as stated: the inner product is FPMul32(attrA, X)
C16_InterpolationFold ==
    /\ C16_Pre(0) => ReplacedBy(C16_Mul.args[2])
    /\ C16_FlagKeeps

\* C16 as amended: the inner product is FPMul32(X, attrA)
C16_InterpolationFoldAttributeSecond ==
    /\ C16_Pre(1) => ReplacedBy(C16_Mul.args[1])
    /\ C16_FlagKeeps

\* FPMul32(FPMul32(X, attrA), FPRecip32(attrB)) with X a register and two
\* reads of one attribute
C16_Witness ==
    /\ C16_Pre(1)
    /\ C16_Mul.args[1] = Ref(3)
    /\ InstRecursive(before.insts, C16_Mul.args[2]) # InstRecursive(before.insts, C16_Recip.args[1])
    /\ ReplacedBy(Ref(3))

\* the same shape with the flag set, left alone
C16_WitnessFlag ==
    /\ Visited # 0
    /\ Was.op = "FPMul32"
    /\ Was.nc
    /\ ~WasImmediate(WasArg(0))
    /\ ~WasImmediate(WasArg(1))
    /\ C16_Mul.op = "FPMul32"
    /\ C16_Recip.op = "FPRecip32"
    /\ C16_ReadsSameAttribute(C16_Mul.args[2])
    /\ Unchanged

(***************************************************************************)
(* C17.  For a BranchConditional whose condition is produced by            *)
(* LogicalNot(c), the pass sets the condition to c and exchanges the two   *)
(* targets, so that for every value of c the target taken is the one taken *)
(* before; a BranchConditional whose condition is an immediate, or is not  *)
(* the result of a LogicalNot, keeps its condition and both targets.       *)
(***************************************************************************)
\* the target a branch with operands args takes when its condition is cond
TargetTaken(args, cond) == IF cond THEN args[2] ELSE args[3]

C17_Negated ==
    /\ Visited # 0
    /\ Was.op = "BranchConditional"
    /\ ~WasImmediate(WasArg(0))
    /\ WasProducer(WasArg(0)).op = "LogicalNot"

C17_BranchOnNegation ==
    (Visited # 0 /\ Was.op = "BranchConditional") =>
        IF C17_Negated
        THEN /\ insts[Visited].op = "BranchConditional"
             /\ insts[Visited].args[1] = WasProducer(WasArg(0)).args[1]
             /\ insts[Visited].args[2] = Was.args[3]
             /\ insts[Visited].args[3] = Was.args[2]
             /\ \A c \in BOOLEAN :
                    TargetTaken(insts[Visited].args, c) = TargetTaken(Was.args, ~c)
             /\ Len(log) = before.nlog
        ELSE Unchanged

\* a branch on the negation of a predicate, rewritten
C17_Witness ==
    /\ C17_Negated
    /\ Was.args[2] # Was.args[3]
    /\ insts[Visited].args = <<Ref(1), Was.args[3], Was.args[2]>>

\* a branch on an immediate condition, left alone
C17_WitnessImmediate ==
    /\ Visited # 0
    /\ Was.op = "BranchConditional"
    /\ WasImmediate(WasArg(0))
    /\ Unchanged

(***************************************************************************)
(* C18.  For IAdd32, IAdd64, LogicalAnd and LogicalOr: when the            *)
(* instruction has one immediate operand c1, in either position, and its   *)
(* other operand is produced by an instruction of the same opcode with     *)
(* operands (x, c2), c2 immediate, FoldCommutative rewrites the operands   *)
(* to (x, c1 op c2), leaves the producer as it is, and the instruction     *)
(* computes the same value as before for every value of x.                 *)
(***************************************************************************)
\* the instruction given to FoldCommutative has c1 at operand 1 - k and the
\* result of a same-opcode (x, c2) at operand k
C18_Pre(k) ==
    /\ Visited # 0
    /\ Was.op \in CommutativeOps
    /\ WasImmediate(WasArg(1 - k))
    /\ ~WasImmediate(WasArg(k))
    /\ WasProducer(WasArg(k)).op = Was.op
    /\ WasImmediate(WasProducer(WasArg(k)).args[2])

\* c1 op c2, by the meaning of op: a sum modulo 2^32 or 2^64, a conjunction,
\* a disjunction
C18_Combined(op, c1, c2) ==
    CASE op \in AddOps -> SumMod(c1, c2)
      [] op = "LogicalAnd" -> Bool(c1 = <<1>> /\ c2 = <<1>>)
      [] op = "LogicalOr" -> Bool(c1 = <<1>> \/ c2 = <<1>>)

\* the values x is tried with
C18_Values(op) ==
    CASE op = "IAdd32" -> {Limbs(0, 4), Limbs(1, 4), HighBit(4), AllOnes(4)}
      [] op = "IAdd64" -> {Limbs(0, 8), Limbs(1, 8), HighBit(8), AllOnes(8)}
      [] OTHER -> {<<0>>, <<1>>}

C18_MergesConstants ==
    \A k \in {0, 1} :
        C18_Pre(k) =>
            LET P == InstRecursive(before.insts, WasArg(k))
                c1 == WasPayload(WasArg(1 - k))
                c2 == WasPayload(before.insts[P].args[2])
                c == Payload(insts, insts[Visited].args[2])
            IN  /\ insts[Visited].op = Was.op
                /\ insts[Visited].args[1] = before.insts[P].args[1]
                /\ IsImmediate(insts, insts[Visited].args[2])
                /\ insts[Visited].args[2].ty = CommutativeType(Was.op)
                /\ c = C18_Combined(Was.op, c1, c2)
                /\ insts[P] = before.insts[P]
                /\ \A x \in C18_Values(Was.op) :
                       C18_Combined(Was.op, x, c)
                         = IF k = 1 THEN C18_Combined(Was.op, c1, C18_Combined(Was.op, x, c2))
                           ELSE C18_Combined(Was.op, C18_Combined(Was.op, x, c2), c1)

\* (2^32 - 1) + (x + 1) merged into x + 0
C18_Witness ==
    /\ C18_Pre(1)
    /\ Was.op = "IAdd32"
    /\ WasArg(0) = MaxU32
    /\ WasProducer(WasArg(1)).args = <<Ref(1), ImmU32(1)>>
    /\ insts[Visited].args = <<Ref(1), ImmU32(0)>>

\* (x || false) || true merged into x || true
C18_WitnessLogical ==
    /\ C18_Pre(0)
    /\ Was.op = "LogicalOr"
    /\ WasProducer(WasArg(0)).args = <<Ref(1), ImmU1(FALSE)>>
    /\ insts[Visited].args = <<Ref(1), ImmU1(TRUE)>>

(***************************************************************************)
(* C19.  After FoldCommutative has processed an instruction whose operands *)
(* were not both immediate, if the instruction has any immediate operand   *)
(* then its second operand is immediate; an instruction entering with      *)
(* (immediate, non-immediate) never leaves with the immediate only in      *)
(* position 0.                                                             *)
(***************************************************************************)
C19_Pre ==
    /\ Visited # 0
    /\ Was.op \in CommutativeOps
    /\ ~(WasImmediate(WasArg(0)) /\ WasImmediate(WasArg(1)))

C19_ImmediateSecond ==
    C19_Pre =>
        /\ insts[Visited].op = Was.op
        /\ (\E k \in {1, 2} : IsImmediate(insts, insts[Visited].args[k]))
              => IsImmediate(insts, insts[Visited].args[2])

\* (immediate, x) with x of no instruction to merge with: the operands are
\* exchanged
C19_Witness ==
    /\ C19_Pre
    /\ WasImmediate(WasArg(0))
    /\ insts[Visited].args = <<WasArg(1), WasArg(0)>>

(***************************************************************************)
(* C20.  The XMAD rewrite preserves the value: with every operation taken  *)
(* modulo 2^32, (((a >> 16) & 0xFFFF) * b << 16) + ((a & 0xFFFF) * b) is   *)
(* a * b, so the emitted IMul32(factor_a, factor_b) computes the value of  *)
(* the IAdd32 it replaces, whatever the registers hold.                    *)
(***************************************************************************)
\* column k of the schoolbook product, limbs 1..j of a taken
RECURSIVE C20_Column(_, _, _, _)
C20_Column(a, b, k, j) ==
    IF j = 0 THEN 0 ELSE a[j] * b[k + 1 - j] + C20_Column(a, b, k, j - 1)

RECURSIVE C20_ProductFrom(_, _, _, _)
C20_ProductFrom(a, b, k, carry) ==
    IF k > Len(a) THEN <<>>
    ELSE LET s == carry + C20_Column(a, b, k, k)
         IN  <<s % 256>> \o C20_ProductFrom(a, b, k + 1, s \div 256)

\* a * b modulo 2^32
C20_Product(a, b) == C20_ProductFrom(a, b, 1, 0)

\* what the registers may hold
C20_Words ==
    {Limbs(0, 4), Limbs(1, 4), <<1, 0, 1, 0>>, <<120, 86, 52, 18>>, <<255, 255, 0, 128>>, AllOnes(4)}

C20_Envs == [{1, 2, 3} -> C20_Words]

\* the run-time value of an IR value of the XMAD shape
RECURSIVE C20_Eval(_, _, _)
C20_Eval(I, val, env) ==
    IF val.ty # "Opaque" THEN val.v
    ELSE LET op == I[val.id].op
             a == I[val.id].args
         IN  CASE op = "Identity" -> C20_Eval(I, a[1], env)
               [] op = "GetRegister" -> IF a[1] = RZ THEN Limbs(0, 4) ELSE env[a[1].v[1]]
               [] op = "BitFieldUExtract" ->
                      BitsOf(C20_Eval(I, a[1], env), SizeT(C20_Eval(I, a[2], env)),
                             SizeT(C20_Eval(I, a[3], env)))
               [] op = "IMul32" -> C20_Product(C20_Eval(I, a[1], env), C20_Eval(I, a[2], env))
               [] op = "ShiftLeftLogical32" ->
                      Shl(C20_Eval(I, a[1], env), SizeT(C20_Eval(I, a[2], env)))
               [] op = "IAdd32" -> SumMod(C20_Eval(I, a[1], env), C20_Eval(I, a[2], env))

\* the last step replaced the visited IAdd32 by an IMul32 it emitted
C20_Folded ==
    /\ Visited # 0
    /\ Was.op = "IAdd32"
    /\ Len(insts) = Len(before.insts) + 1
    /\ insts[Len(insts)].op = "IMul32"
    /\ ReplacedBy(Ref(Len(insts)))

C20_XmadPreservesValue ==
    C20_Folded =>
        \A env \in C20_Envs :
            C20_Eval(insts, Ref(Len(insts)), env) = C20_Eval(before.insts, Ref(Visited), env)

\* the fold of a * b with b a register: for a = b = 2^32 - 1 the add and the
\* multiply both give 1, for a = 0x8000FFFF and b = 0x12345678 both give
\* 0x4443A988
C20_Witness ==
    /\ C20_Folded
    /\ C15_LhsMul.args[2] = Ref(2)
    /\ C20_Eval(before.insts, Ref(Visited), [r \in {1, 2, 3} |-> AllOnes(4)]) = Limbs(1, 4)
    /\ C20_Eval(insts, Ref(Len(insts)), [r \in {1, 2, 3} |-> AllOnes(4)]) = Limbs(1, 4)
    /\ C20_Eval(before.insts, Ref(Visited),
                [r \in {1, 2, 3} |-> IF r = 1 THEN <<255, 255, 0, 128>> ELSE <<120, 86, 52, 18>>])
         = <<136, 169, 67, 68>>

(***************************************************************************)
(* C21.  When the logic error is raised on a malformed bit-field extract,  *)
(* the pass stops without rollback: the offending instruction's result is  *)
(* not replaced, every instruction visited before it keeps the rewrite it  *)
(* received, and every instruction after it in traversal order is as it    *)
(* was before the pass.                                                    *)
(***************************************************************************)
\* the instructions the traversal has yet to reach: the rest of the current
\* block and the blocks still to come
C21_After ==
    { blocks[bi][k] : k \in {n \in 1..Len(blocks[bi]) :
                                \E c \in 1..(n - 1) : blocks[bi][c] = cur} }
    \cup UNION { {blocks[b][k] : k \in 1..Len(blocks[b])} : b \in 1..(bi - 1) }

\* every replacement the pass has made so far is in place
C21_RewritesKept ==
    \A k \in 1..Len(log) :
        /\ insts[log[k].inst].op = "Identity"
        /\ insts[log[k].inst].args = <<log[k].val>>

\* The error is raised in the first run only (a later run meets no extract
\* with immediate operands that the first has not met), so that orig is the
\* program before the pass.
C21_ErrorStopsWithoutRollback ==
    pc = "error" =>
        /\ run = 1
        /\ cur = Visited
        /\ insts[Visited] = Was
        /\ Unchanged
        /\ C21_RewritesKept
        /\ \A j \in C21_After : j <= Len(orig.insts) /\ insts[j] = orig.insts[j]
        /\ ~ENABLED Next

\* the error after a fold and before two instructions that a pass without
\* error folds, one of them in a later block
C21_Witness ==
    /\ pc = "error"
    /\ Len(log) = 1
    /\ log[1].inst = 1
    /\ insts[1].op = "Identity"
    /\ C21_After = {3, 4}
    /\ bi = 2
    /\ insts[3].op = "IAdd32"
    /\ insts[4].op = "ISub32"

====
